---- MODULE Spec2Model ----
(***************************************************************************)
(* Wumpus World: the environment state machine of src/wumpus/world.py.     *)
(* Positions are pairs <<x, y>>, 1-indexed.  Enum members are modelled by  *)
(* their string values ("north", "forward", ...).  Python's None outcome   *)
(* is the string "none".                                                   *)
(***************************************************************************)
EXTENDS Integers, Sequences, FiniteSets, TLC

VARIABLES
    size,             \* World.size
    pit_probability,  \* World.pit_probability, in percent
    pits,             \* World.pits
    wumpus_pos,       \* World.wumpus_pos
    gold_pos,         \* World.gold_pos
    agent_pos,        \* World.agent_pos
    agent_dir,        \* World.agent_dir
    wumpus_alive,     \* World.wumpus_alive
    has_gold,         \* World.has_gold
    arrow_available,  \* World.arrow_available
    terminated,       \* World.terminated
    outcome,          \* World.outcome
    ret,              \* the value the last step or initial_percept call returned, as a StepResult
    screams,          \* number of step results so far that carried scream = TRUE (capped at 2)
    sp_start,         \* shortest_path: argument start
    sp_goal,          \* shortest_path: argument goal
    sp_passable,      \* shortest_path: argument passable
    sp_called,        \* whether shortest_path has returned
    sp_result,        \* shortest_path: the returned value
    steps,            \* simulate_prolog_episode: steps
    sim_result,       \* simulate_prolog_episode: the returned string, "none" while it runs
    agent,            \* the PrologAgent object, as a record of its fields
    acted,            \* what the last PrologAgent.act call returned or raised ("none" before any)
    driver_percept,   \* run_episode: the local percept, handed to the next act
    glimmer_attr      \* whether the percept objects handed to act carry a glimmer attribute

layoutVars == <<size, pit_probability, pits, wumpus_pos, gold_pos>>
agentVars == <<agent_pos, agent_dir, wumpus_alive, has_gold, arrow_available, terminated, outcome>>
envVars == <<layoutVars, agentVars>>
worldVars == <<envVars, ret, screams>>
plannerVars == <<sp_start, sp_goal, sp_passable, sp_called, sp_result>>
driverVars == <<steps, sim_result>>
logicalVars == <<agent, acted, driver_percept, glimmer_attr>>
vars == <<worldVars, plannerVars, driverVars, logicalVars>>

-----------------------------------------------------------------------------
(* Bounds of the model. *)

(* Grids are 1x1 up to MaxSize x MaxSize. *)
MaxSize == 2

(* The most cells besides (1,1) that generation leaves free of pits: 3     *)
(* admits every 2x2 layout.                                                 *)
MaxOpenCells == 3

(* pit_probability values tried, in percent: never, the default 0.2, always. *)
PitProbabilities == {0, 20, 100}

(* rng.random() lies in [0, 1): in percent, 0..99. *)
RandomValues == 0..99

-----------------------------------------------------------------------------
(* world.py: enums and value types. *)

Actions == {"forward", "turn_left", "turn_right", "grab", "shoot", "climb"}

Directions == {"north", "east", "south", "west"}

Outcomes == {"escaped_with_gold", "escaped_without_gold", "fell_in_pit", "eaten_by_wumpus"}

start == <<1, 1>>

IndexOf(order, d) == CHOOSE i \in 1..Len(order) : order[i] = d

turn_left(d) ==
    LET order == <<"north", "west", "south", "east">>
    IN  order[((IndexOf(order, d) - 1 + 1) % 4) + 1]

turn_right(d) ==
    LET order == <<"north", "east", "south", "west">>
    IN  order[((IndexOf(order, d) - 1 + 1) % 4) + 1]

Percept(breeze, stench, glitter, bump, scream) ==
    [breeze |-> breeze, stench |-> stench, glitter |-> glitter, bump |-> bump, scream |-> scream]

StepResult(percept, term, out, gold) ==
    [percept |-> percept, terminated |-> term, outcome |-> out, has_gold |-> gold]

-----------------------------------------------------------------------------
(* World._generate_world: the layouts a seed can produce. *)

coords(sz) == {<<x, y>> : x \in 1..sz, y \in 1..sz} \ {start}

(* The outcomes of `rng.random() < p`. *)
RandomBelow(p) == {r < p : r \in RandomValues}

PitSets(sz, p) ==
    {ps \in SUBSET coords(sz) :
        /\ \A c \in coords(sz) : (c \in ps) \in RandomBelow(p)
        /\ Cardinality(coords(sz) \ ps) <= MaxOpenCells}

WumpusChoices(sz, ps) ==
    LET free == coords(sz) \ ps
    IN  IF free # {} THEN free ELSE {start}

(* Mutant of GoldChoices: the Wumpus' cell is not excluded. *)
GoldChoices_WithWumpusCell(sz, ps, w) ==
    LET free == coords(sz) \ ps
    IN  IF free # {} THEN free ELSE {start}

GoldChoices(sz, ps, w) ==
    LET free == coords(sz) \ ps
        free_for_gold == free \ {w}
    IN  IF free_for_gold # {} THEN free_for_gold ELSE {start}

-----------------------------------------------------------------------------
(* World helpers. *)

_inside(pos, sz) == 1 <= pos[1] /\ pos[1] <= sz /\ 1 <= pos[2] /\ pos[2] <= sz

_forward_pos(pos, d) ==
    IF d = "north" THEN <<pos[1], pos[2] + 1>>
    ELSE IF d = "south" THEN <<pos[1], pos[2] - 1>>
    ELSE IF d = "east" THEN <<pos[1] + 1, pos[2]>>
    ELSE <<pos[1] - 1, pos[2]>>

neighbors(pos, sz) ==
    LET candidates == {<<pos[1] + 1, pos[2]>>, <<pos[1] - 1, pos[2]>>,
                       <<pos[1], pos[2] + 1>>, <<pos[1], pos[2] - 1>>}
    IN  {c \in candidates : _inside(c, sz)}

(* Mutant of _compute_percept: a dead Wumpus still stinks. *)
_compute_percept_dead_stench(pos, alive, gold, bump, scream) ==
    LET breeze == \E n \in neighbors(pos, size) : n \in pits
        stench == \E n \in neighbors(pos, size) : n = wumpus_pos
        glitter == pos = gold_pos /\ ~gold
    IN  Percept(breeze, stench, glitter, bump, scream)

(* The percept at cell pos with the given (possibly updated) flags; the     *)
(* layout is read from the state, which no operation changes.               *)
_compute_percept(pos, alive, gold, bump, scream) ==
    LET breeze == \E n \in neighbors(pos, size) : n \in pits
        stench == alive /\ (\E n \in neighbors(pos, size) : n = wumpus_pos)
        glitter == pos = gold_pos /\ ~gold
    IN  Percept(breeze, stench, glitter, bump, scream)

(* Mutant of _shoot_arrow: the arrow flies north when the agent faces      *)
(* south.                                                                   *)
RECURSIVE _shoot_arrow_south_is_north(_, _, _)
_shoot_arrow_south_is_north(pos, d, alive) ==
    LET nxt == _forward_pos(pos, IF d = "south" THEN "north" ELSE d)
    IN  IF ~_inside(nxt, size) THEN FALSE
        ELSE IF nxt = wumpus_pos /\ alive THEN TRUE
        ELSE _shoot_arrow_south_is_north(nxt, d, alive)

(* The arrow's flight from pos in direction d: TRUE iff it strikes the      *)
(* live Wumpus before leaving the grid.                                     *)
RECURSIVE _shoot_arrow(_, _, _)
_shoot_arrow(pos, d, alive) ==
    LET nxt == _forward_pos(pos, d)
    IN  IF ~_inside(nxt, size) THEN FALSE
        ELSE IF nxt = wumpus_pos /\ alive THEN TRUE
        ELSE _shoot_arrow(nxt, d, alive)

-----------------------------------------------------------------------------
(* World.__init__ *)

Init ==
    /\ size \in 1..MaxSize
    /\ pit_probability \in PitProbabilities
    /\ pits \in PitSets(size, pit_probability)
    /\ wumpus_pos \in WumpusChoices(size, pits)
    /\ gold_pos \in GoldChoices(size, pits, wumpus_pos)
    /\ agent_pos = start
    /\ agent_dir = "east"
    /\ wumpus_alive = TRUE
    /\ has_gold = FALSE
    /\ arrow_available = TRUE
    /\ terminated = FALSE
    /\ outcome = "none"
    /\ ret = StepResult(Percept(FALSE, FALSE, FALSE, FALSE, FALSE), FALSE, "none", FALSE)
    /\ screams = 0

-----------------------------------------------------------------------------
(* World.step, branch by branch. *)

(* Mutant of step_forward: the wall is tested against the agent's cell,    *)
(* not the cell ahead.                                                      *)
step_forward_checks_own_cell(pos, d) ==
    LET next_pos == _forward_pos(pos, d)
    IN  IF ~_inside(pos, size)
        THEN [pos |-> pos, bump |-> TRUE]
        ELSE [pos |-> next_pos, bump |-> FALSE]

(* FORWARD: the cell reached and whether the move bumped. *)
step_forward(pos, d) ==
    LET next_pos == _forward_pos(pos, d)
    IN  IF ~_inside(next_pos, size)
        THEN [pos |-> pos, bump |-> TRUE]
        ELSE [pos |-> next_pos, bump |-> FALSE]

(* Mutant of step_grab: the gold is taken from any cell. *)
step_grab_anywhere(pos, gold) == TRUE

(* GRAB: the new has_gold. *)
step_grab(pos, gold) ==
    IF pos = gold_pos /\ ~gold THEN TRUE ELSE gold

(* Mutant of step_shoot_enabled: the arrow is never checked. *)
step_shoot_unlimited(action, arrow) == action = "shoot"

(* Whether SHOOT enters its branch (`action == SHOOT and self.arrow_available`). *)
step_shoot_enabled(action, arrow) == action = "shoot" /\ arrow

(* Mutant of step_climb: climbing works from any cell. *)
step_climb_anywhere(pos, gold, term, out) ==
    [terminated |-> TRUE,
     outcome |-> IF gold THEN "escaped_with_gold" ELSE "escaped_without_gold"]

(* CLIMB: the new (terminated, outcome). *)
step_climb(pos, gold, term, out) ==
    IF pos = start
    THEN [terminated |-> TRUE,
          outcome |-> IF gold THEN "escaped_with_gold" ELSE "escaped_without_gold"]
    ELSE [terminated |-> term, outcome |-> out]

(* Mutant of step_hazards: the check for the Wumpus is missing. *)
step_hazards_wumpus_spares(pos, alive, term, out) ==
    IF ~term /\ pos \in pits
    THEN [terminated |-> TRUE, outcome |-> "fell_in_pit"]
    ELSE [terminated |-> term, outcome |-> out]

(* Mutant of step_hazards: the Wumpus eats whether alive or not. *)
step_hazards_dead_wumpus_eats(pos, alive, term, out) ==
    LET afterPit == IF ~term /\ pos \in pits
                    THEN [terminated |-> TRUE, outcome |-> "fell_in_pit"]
                    ELSE [terminated |-> term, outcome |-> out]
    IN  IF ~afterPit.terminated /\ pos = wumpus_pos
        THEN [terminated |-> TRUE, outcome |-> "eaten_by_wumpus"]
        ELSE afterPit

(* The two hazard checks that follow the action, in the code's order. *)
step_hazards(pos, alive, term, out) ==
    LET afterPit == IF ~term /\ pos \in pits
                    THEN [terminated |-> TRUE, outcome |-> "fell_in_pit"]
                    ELSE [terminated |-> term, outcome |-> out]
    IN  IF ~afterPit.terminated /\ pos = wumpus_pos /\ alive
        THEN [terminated |-> TRUE, outcome |-> "eaten_by_wumpus"]
        ELSE afterPit

(* The fields of the world that step may write, as a record. *)
World(pos, d, alive, gold, arrow, term, out) ==
    [agent_pos |-> pos, agent_dir |-> d, wumpus_alive |-> alive, has_gold |-> gold,
     arrow_available |-> arrow, terminated |-> term, outcome |-> out]

self == World(agent_pos, agent_dir, wumpus_alive, has_gold, arrow_available, terminated, outcome)

(* Mutant of step_terminated: the early return is missing for the turns. *)
step_terminated_still_turns(action) ==
    [world |-> [self EXCEPT !.agent_dir =
                    IF action = "turn_left" THEN turn_left(agent_dir)
                    ELSE IF action = "turn_right" THEN turn_right(agent_dir)
                    ELSE agent_dir],
     result |-> StepResult(_compute_percept(agent_pos, wumpus_alive, has_gold, FALSE, FALSE),
                           TRUE, outcome, has_gold)]

(* step once the episode is over: nothing is written, the percept is     *)
(* recomputed with bump and scream False.                                   *)
step_terminated(action) ==
    [world |-> self,
     result |-> StepResult(_compute_percept(agent_pos, wumpus_alive, has_gold, FALSE, FALSE),
                           TRUE, outcome, has_gold)]

(* The end of a running step: the hazard checks on the fields the action  *)
(* left, then the percept and the StepResult.                               *)
step_finish(pos, bump, d, gold, arrow, alive, scream, final) ==
    [world |-> World(pos, d, alive, gold, arrow, final.terminated, final.outcome),
     result |-> StepResult(_compute_percept(pos, alive, gold, bump, scream),
                           final.terminated, final.outcome, gold)]

(* The action's own branch of a running step, given the outcome of the     *)
(* FORWARD move, of the shot and of the CLIMB.                              *)
step_action(action, fwd, scream, climbed) ==
    step_finish(fwd.pos, fwd.bump,
                IF action = "turn_left" THEN turn_left(agent_dir)
                ELSE IF action = "turn_right" THEN turn_right(agent_dir)
                ELSE agent_dir,
                IF action = "grab" THEN step_grab(agent_pos, has_gold) ELSE has_gold,
                IF step_shoot_enabled(action, arrow_available) THEN FALSE ELSE arrow_available,
                IF scream THEN FALSE ELSE wumpus_alive,
                scream,
                step_hazards(fwd.pos, IF scream THEN FALSE ELSE wumpus_alive,
                             climbed.terminated, climbed.outcome))

(* step while the episode runs. *)
step_running(action) ==
    step_action(action,
                IF action = "forward" THEN step_forward(agent_pos, agent_dir)
                ELSE [pos |-> agent_pos, bump |-> FALSE],
                step_shoot_enabled(action, arrow_available)
                    /\ _shoot_arrow(agent_pos, agent_dir, wumpus_alive),
                IF action = "climb"
                THEN step_climb(agent_pos, has_gold, terminated, outcome)
                ELSE [terminated |-> terminated, outcome |-> outcome])

(* step(action) as a function of the current state: the world it leaves    *)
(* and the StepResult it returns.                                           *)
step_apply(action) ==
    IF terminated THEN step_terminated(action) ELSE step_running(action)

step(action) ==
    \E n \in {step_apply(action)} :
        /\ agent_pos' = n.world.agent_pos
        /\ agent_dir' = n.world.agent_dir
        /\ wumpus_alive' = n.world.wumpus_alive
        /\ has_gold' = n.world.has_gold
        /\ arrow_available' = n.world.arrow_available
        /\ terminated' = n.world.terminated
        /\ outcome' = n.world.outcome
        /\ ret' = n.result
        /\ screams' = IF n.result.percept.scream /\ screams < 2 THEN screams + 1 ELSE screams
        /\ UNCHANGED layoutVars

(* initial_percept() returns a bare Percept: the other StepResult fields   *)
(* of ret are fillers.                                                      *)
initial_percept_value == _compute_percept(agent_pos, wumpus_alive, has_gold, FALSE, FALSE)

initial_percept ==
    /\ ret' = StepResult(initial_percept_value, FALSE, "none", FALSE)
    /\ UNCHANGED <<envVars, screams>>

(* The planner at rest: no call of shortest_path is under way. *)
PlannerIdle ==
    /\ sp_start = start
    /\ sp_goal = start
    /\ sp_passable = {}
    /\ sp_called = FALSE
    /\ sp_result = <<>>

(* No driver loop of experiments.py is counting steps. *)
DriverIdle ==
    /\ steps = 0
    /\ sim_result = "none"

(* No PrologAgent has been built. *)
LogicalIdle ==
    /\ agent = "none"
    /\ acted = "none"
    /\ driver_percept = "none"
    /\ glimmer_attr = FALSE

(* The environment alone, driven by any caller. *)
WorldInit == Init /\ PlannerIdle /\ DriverIdle /\ LogicalIdle

Next ==
    \/ \E action \in Actions :
          step(action) /\ UNCHANGED <<plannerVars, driverVars, logicalVars>>
    \/ initial_percept /\ UNCHANGED <<plannerVars, driverVars, logicalVars>>

Spec == WorldInit /\ [][Next]_vars

-----------------------------------------------------------------------------
(* Vocabulary of the properties, stated without the code's helpers. *)

Grid == (1..size) \X (1..size)

Abs(i) == IF i < 0 THEN -i ELSE i

Adjacent(a, b) == Abs(a[1] - b[1]) + Abs(a[2] - b[2]) = 1

-----------------------------------------------------------------------------
(* C1: in every reachable non-terminated state, step(CLIMB) terminates the  *)
(* episode iff the agent is on (1,1), with outcome escaped_with_gold when   *)
(* has_gold and escaped_without_gold otherwise; on any other cell it leaves *)
(* every field of the world unchanged.                                      *)
C1_ClimbOnlyAtStart ==
    ~terminated =>
        \A n \in {step_apply("climb")} :
            IF agent_pos = <<1, 1>>
            THEN /\ n.world.terminated
                 /\ n.result.terminated
                 /\ n.world.outcome =
                        (IF has_gold THEN "escaped_with_gold" ELSE "escaped_without_gold")
                 /\ n.result.outcome = n.world.outcome
            ELSE /\ n.world = self
                 /\ ~n.result.terminated

(* A CLIMB on the start cell with the gold has ended the episode. *)
C1_Witness ==
    /\ terminated
    /\ agent_pos = <<1, 1>>
    /\ has_gold
    /\ outcome = "escaped_with_gold"
    /\ ret.outcome = "escaped_with_gold"

(* C2 as stated: right after generation (1,1) is no pit, not the Wumpus'    *)
(* cell and not the gold's cell.                                            *)
C2_StartNeverWumpusNorGold ==
    /\ <<1, 1>> \notin pits
    /\ wumpus_pos # <<1, 1>>
    /\ gold_pos # <<1, 1>>

(* C2, amended: (1,1) is never a pit; it is the Wumpus' cell exactly when   *)
(* every other cell of the grid is a pit (a 1x1 grid included), and the     *)
(* gold's cell exactly when no other cell is free of both pit and Wumpus.   *)
(* The layout is written only by generation, so this is stated of every     *)
(* state.                                                                   *)
C2_StartCellAfterGeneration ==
    /\ <<1, 1>> \notin pits
    /\ wumpus_pos = <<1, 1>> <=> (\A c \in Grid \ {<<1, 1>>} : c \in pits)
    /\ gold_pos = <<1, 1>> <=> (\A c \in Grid \ {<<1, 1>>} : c \in pits \/ c = wumpus_pos)

(* A freshly generated 2x2 world whose only pit-free cell went to the      *)
(* Wumpus, so the gold fell back to (1,1).                                  *)
C2_Witness ==
    /\ gold_pos = <<1, 1>>
    /\ wumpus_pos # <<1, 1>>
    /\ Cardinality(pits) = 2
    /\ agent_pos = <<1, 1>> /\ agent_dir = "east" /\ arrow_available /\ ~terminated

(* C3 as stated: once terminated, every later step, whatever the action,   *)
(* writes no field and returns terminated = TRUE with the outcome and the  *)
(* percept the terminating step returned.  (ret.terminated tells a step's  *)
(* result from initial_percept's; the world being frozen, what a later     *)
(* step returns is the same in every terminated state of the episode.)     *)
C3_FrozenTerminalResult ==
    (terminated /\ ret.terminated) =>
        \A action \in Actions :
            \A n \in {step_apply(action)} :
                /\ n.world = self
                /\ n.result.terminated
                /\ n.result.outcome = ret.outcome
                /\ n.result.percept = ret.percept

(* C3, amended: once terminated, every later step writes no field and      *)
(* returns terminated = TRUE, the same outcome, and the terminating step's *)
(* breeze, stench and glitter with bump = FALSE and scream = FALSE.        *)
C3_FrozenAfterTermination ==
    (terminated /\ ret.terminated) =>
        \A action \in Actions :
            \A n \in {step_apply(action)} :
                /\ n.world = self
                /\ n.result.terminated
                /\ n.result.outcome = ret.outcome
                /\ n.result.percept = [ret.percept EXCEPT !.bump = FALSE, !.scream = FALSE]

(* The episode ended on a step whose percept carried a bump. *)
C3_Witness ==
    /\ terminated
    /\ ret.terminated
    /\ ret.percept.bump

(* C4: at most one step of an episode returns scream = TRUE; a SHOOT with  *)
(* the arrow in a running episode consumes it, and every SHOOT after it    *)
(* (the arrow gone, or the episode over) writes no field and returns       *)
(* scream = FALSE.                                                         *)
C4_AtMostOneScream ==
    /\ screams <= 1
    /\ (~terminated /\ arrow_available) => ~step_apply("shoot").world.arrow_available
    /\ (~arrow_available \/ terminated) =>
          \A n \in {step_apply("shoot")} :
              /\ n.world = self
              /\ ~n.result.percept.scream

(* The arrow missed, and the agent now stands with the live Wumpus straight *)
(* ahead: a second SHOOT would hit if it flew.                              *)
C4_Witness ==
    /\ ~terminated
    /\ ~arrow_available
    /\ wumpus_alive
    /\ screams = 0
    /\ wumpus_pos = <<agent_pos[1] + (IF agent_dir = "east" THEN 1 ELSE 0),
                      agent_pos[2] + (IF agent_dir = "north" THEN 1 ELSE 0)>>
    /\ agent_dir \in {"east", "north"}

(* C5: after the action of a step in a running episode, a successful CLIMB *)
(* keeps its outcome; otherwise the episode ends with fell_in_pit when the *)
(* agent's cell is a pit, else with eaten_by_wumpus when it is the cell of  *)
(* the live Wumpus, and else goes on (the cell of a dead Wumpus is          *)
(* harmless).                                                               *)
C5_HazardsAfterAction ==
    ~terminated =>
        \A action \in Actions :
            \A n \in {step_apply(action).world} :
                IF action = "climb" /\ agent_pos = <<1, 1>>
                THEN n.terminated /\ n.outcome \in {"escaped_with_gold", "escaped_without_gold"}
                ELSE IF n.agent_pos \in pits
                THEN n.terminated /\ n.outcome = "fell_in_pit"
                ELSE IF n.agent_pos = wumpus_pos /\ n.wumpus_alive
                THEN n.terminated /\ n.outcome = "eaten_by_wumpus"
                ELSE ~n.terminated /\ n.outcome = "none"

(* The agent stands on the dead Wumpus' cell and the episode goes on. *)
C5_Witness ==
    /\ ~terminated
    /\ agent_pos = wumpus_pos
    /\ ~wumpus_alive
    /\ outcome = "none"

(* The cell one step from pos in direction d, by coordinates. *)
Ahead(pos, d) ==
    CASE d = "north" -> <<pos[1], pos[2] + 1>>
      [] d = "east"  -> <<pos[1] + 1, pos[2]>>
      [] d = "south" -> <<pos[1], pos[2] - 1>>
      [] d = "west"  -> <<pos[1] - 1, pos[2]>>

(* Cell c lies strictly ahead of pos along direction d. *)
InLineAhead(pos, d, c) ==
    CASE d = "north" -> c[1] = pos[1] /\ c[2] > pos[2]
      [] d = "east"  -> c[2] = pos[2] /\ c[1] > pos[1]
      [] d = "south" -> c[1] = pos[1] /\ c[2] < pos[2]
      [] d = "west"  -> c[2] = pos[2] /\ c[1] < pos[1]

(* C6: in a running episode step(FORWARD) moves the agent to the cell      *)
(* ahead and returns bump = FALSE when that cell is in the grid, and       *)
(* otherwise leaves the position and returns bump = TRUE; no other action  *)
(* (and no step of an ended episode) returns bump = TRUE; the agent is in  *)
(* the grid in every reachable state.                                      *)
C6_ForwardAndBump ==
    /\ agent_pos \in Grid
    /\ ~terminated =>
          \A n \in {step_apply("forward")} :
              IF Ahead(agent_pos, agent_dir) \in Grid
              THEN n.world.agent_pos = Ahead(agent_pos, agent_dir) /\ ~n.result.percept.bump
              ELSE n.world.agent_pos = agent_pos /\ n.result.percept.bump
    /\ \A action \in Actions :
          (action # "forward" \/ terminated) => ~step_apply(action).result.percept.bump

(* A FORWARD into the wall has just bumped, away from the start pose. *)
C6_Witness ==
    /\ ret.percept.bump
    /\ ~terminated
    /\ agent_pos # <<1, 1>>
    /\ Ahead(agent_pos, agent_dir) \notin Grid

C8_GrabOnlyOnGold ==
    ~terminated =>
        \A n \in {step_apply("grab")} :
            IF agent_pos = gold_pos /\ ~has_gold
            THEN n.world.has_gold /\ n.result.has_gold
            ELSE n.world = self /\ n.result.has_gold = has_gold

(* The gold has been grabbed away from the start cell and the episode runs. *)
C8_Witness ==
    /\ has_gold
    /\ ~terminated
    /\ agent_pos = gold_pos
    /\ gold_pos # <<1, 1>>
    /\ ret.has_gold
    /\ ~ret.percept.glitter

(* What the percept p must sense at cell pos given the flags alive, gold. *)
Senses(p, pos, alive, gold) ==
    /\ p.breeze <=> (\E c \in pits : c \in Grid /\ Adjacent(c, pos))
    /\ p.stench <=> (alive /\ wumpus_pos \in Grid /\ Adjacent(wumpus_pos, pos))
    /\ p.glitter <=> (pos = gold_pos /\ ~gold)

(* In this state, every percept a call would return senses what it must. *)
ReturnedPerceptsSense ==
    /\ \A action \in Actions :
          \A n \in {step_apply(action)} :
              Senses(n.result.percept, n.world.agent_pos, n.world.wumpus_alive,
                     n.world.has_gold)
    /\ Senses(initial_percept_value, agent_pos, wumpus_alive, has_gold)
    /\ ~initial_percept_value.bump
    /\ ~initial_percept_value.scream

(* C9: every percept returned by step or initial_percept has breeze iff a  *)
(* pit is on an in-grid orthogonal neighbour of the agent's cell, stench   *)
(* iff the live Wumpus is on one, glitter iff the agent is on the gold's   *)
(* cell without holding it; initial_percept's has bump = FALSE and         *)
(* scream = FALSE and the call writes no field.                            *)
C9_PerceptSignals ==
    /\ []ReturnedPerceptsSense
    /\ [][initial_percept => UNCHANGED envVars]_vars

(* A percept with breeze and without stench beside the dead Wumpus. *)
C9_Witness ==
    /\ ret.percept.breeze
    /\ ~ret.percept.stench
    /\ ~wumpus_alive
    /\ Adjacent(wumpus_pos, agent_pos)
    /\ ~terminated

-----------------------------------------------------------------------------
(* planning.py: breadth-first search over 4-connected moves.  Python's None *)
(* is the empty sequence, which is no path: a path holds at least start.    *)

None == <<>>

(* The cells shortest_path is called with: PlanColumns columns of PlanRows. *)
PlanColumns == 3

PlanRows == {1, 2}

PlanCells == (1..PlanColumns) \X PlanRows

(* for dx, dy in [(0, 1), (0, -1), (1, 0), (-1, 0)] *)
offsets == <<<<0, 1>>, <<0, -1>>, <<1, 0>>, <<-1, 0>>>>

(* The search's locals: the deque, the visited set and the parent dict. *)
Search(queue, visited, parent) ==
    [queue |-> queue, visited |-> visited, parent |-> parent]

(* One turn of the for loop with the passable test left out. *)
shortest_path_visit_walks_anywhere(s, current, neighbor, passable) ==
    IF neighbor \in PlanCells /\ neighbor \notin s.visited
    THEN Search(Append(s.queue, neighbor), s.visited \cup {neighbor},
                [c \in DOMAIN s.parent \cup {neighbor} |->
                    IF c = neighbor THEN current ELSE s.parent[c]])
    ELSE s

(* One turn of the for loop: a passable neighbour not yet visited is       *)
(* marked visited, gets current as its parent and joins the queue.         *)
shortest_path_visit(s, current, neighbor, passable) ==
    IF neighbor \in passable /\ neighbor \notin s.visited
    THEN Search(Append(s.queue, neighbor), s.visited \cup {neighbor},
                [c \in DOMAIN s.parent \cup {neighbor} |->
                    IF c = neighbor THEN current ELSE s.parent[c]])
    ELSE s

(* The for loop over the four offsets, from offset k on. *)
RECURSIVE shortest_path_expand(_, _, _, _)
shortest_path_expand(s, current, k, passable) ==
    IF k > Len(offsets) THEN s
    ELSE shortest_path_expand(
             shortest_path_visit(s, current,
                 <<current[1] + offsets[k][1], current[2] + offsets[k][2]>>, passable),
             current, k + 1, passable)

(* path = [current]; while current in parent: path.append(parent[current]) *)
RECURSIVE shortest_path_trace(_, _)
shortest_path_trace(current, parent) ==
    IF current \in DOMAIN parent
    THEN <<current>> \o shortest_path_trace(parent[current], parent)
    ELSE <<current>>

(* path.reverse() *)
reverse(path) == [i \in 1..Len(path) |-> path[Len(path) + 1 - i]]

(* queue.popleft() *)
shortest_path_pop(queue) == [current |-> Head(queue), rest |-> Tail(queue)]

(* while queue: ... return None *)
RECURSIVE shortest_path_search(_, _, _)
shortest_path_search(s, goal, passable) ==
    IF s.queue = <<>> THEN None
    ELSE \* the one popped entry, bound once
         LET popped == shortest_path_pop(s.queue)
         IN  IF popped.current = goal
             THEN reverse(shortest_path_trace(popped.current, s.parent))
             ELSE shortest_path_search(
                      shortest_path_expand(Search(popped.rest, s.visited, s.parent),
                                           popped.current, 1, passable),
                      goal, passable)

(* if start == goal: return [start] comes before the membership test.     *)
shortest_path(from, goal, passable) ==
    IF from = goal THEN <<from>>
    ELSE IF from \notin passable \/ goal \notin passable THEN None
    ELSE shortest_path_search(Search(<<from>>, {from}, <<>>), goal, passable)

(* The planner called once on arbitrary arguments. *)
PlannerInit ==
    /\ sp_start \in PlanCells
    /\ sp_goal \in PlanCells
    /\ sp_passable \in SUBSET PlanCells
    /\ sp_called = FALSE
    /\ sp_result = None

shortest_path_call ==
    /\ ~sp_called
    /\ sp_called' = TRUE
    /\ sp_result' = shortest_path(sp_start, sp_goal, sp_passable)
    /\ UNCHANGED <<sp_start, sp_goal, sp_passable>>

(* No world is under way while the planner is exercised: the fields hold   *)
(* the 1x1 world's initial values and no call changes them.                *)
WorldIdle ==
    /\ size = 1
    /\ pit_probability = 0
    /\ pits = {}
    /\ wumpus_pos = start
    /\ gold_pos = start
    /\ agent_pos = start
    /\ agent_dir = "east"
    /\ wumpus_alive = TRUE
    /\ has_gold = FALSE
    /\ arrow_available = TRUE
    /\ terminated = FALSE
    /\ outcome = "none"
    /\ ret = StepResult(Percept(FALSE, FALSE, FALSE, FALSE, FALSE), FALSE, "none", FALSE)
    /\ screams = 0

PlannerStart == PlannerInit /\ WorldIdle /\ DriverIdle /\ LogicalIdle

PlannerNext == shortest_path_call /\ UNCHANGED <<worldVars, driverVars, logicalVars>>

PlannerSpec == PlannerStart /\ [][PlannerNext]_vars

-----------------------------------------------------------------------------
(* Vocabulary of the planner's properties. *)

(* The cells joined to c by 4-adjacent steps through passable, found by    *)
(* closing {c} under adjacency.                                            *)
RECURSIVE Closure(_, _)
Closure(cells, passable) ==
    IF \E n \in passable \ cells : \E c \in cells : Adjacent(c, n)
    THEN Closure(cells \cup {n \in passable : \E c \in cells : Adjacent(c, n)}, passable)
    ELSE cells

Connected(a, b, passable) ==
    /\ a \in passable
    /\ b \in passable
    /\ b \in Closure({a}, passable)

(* The cells of passable at exactly k steps from a, and the distance. *)
RECURSIVE Distance(_, _, _, _)
Distance(reached, b, passable, k) ==
    IF b \in reached THEN k
    ELSE Distance(reached \cup {n \in passable : \E c \in reached : Adjacent(c, n)},
                  b, passable, k + 1)

(* C12: for every passable set and every p in it, shortest_path(p, p,      *)
(* passable) returns [p]; for start and goal in passable that no 4-adjacent *)
(* steps through passable connect, it returns None.                         *)
C12_TrivialAndDisconnected ==
    sp_called =>
        /\ (sp_start = sp_goal /\ sp_start \in sp_passable) => sp_result = <<sp_start>>
        /\ (/\ sp_start \in sp_passable
            /\ sp_goal \in sp_passable
            /\ ~Connected(sp_start, sp_goal, sp_passable)) => sp_result = None

(* A call between two passable cells that a wall of impassable cells parts. *)
C12_Witness ==
    /\ sp_called
    /\ sp_start \in sp_passable
    /\ sp_goal \in sp_passable
    /\ sp_start # sp_goal
    /\ ~Connected(sp_start, sp_goal, sp_passable)
    /\ Cardinality(sp_passable) >= 4
    /\ sp_result = None

(* C13: shortest_path returns None whenever start or goal is not in        *)
(* passable, start = goal included.                                         *)
C13_NoneOutsidePassable ==
    (sp_called /\ (sp_start \notin sp_passable \/ sp_goal \notin sp_passable))
        => sp_result = None

(* The one-cell path returned for an impassable start = goal, nothing      *)
(* being passable at all.                                                   *)
C13_Witness ==
    /\ sp_called
    /\ sp_start = sp_goal
    /\ sp_passable = {}
    /\ sp_result = <<sp_start>>

(* A path is a walk through passable from a to b without repeats. *)
IsPath(path, a, b, passable) ==
    /\ Len(path) >= 1
    /\ path[1] = a
    /\ path[Len(path)] = b
    /\ \A i \in 1..(Len(path) - 1) : Adjacent(path[i], path[i + 1])
    /\ \A i \in 1..Len(path) : path[i] \in passable
    /\ \A i, j \in 1..Len(path) : i # j => path[i] # path[j]

(* The result of the call is a shortest path, or None where none exists. *)
ResultIsShortestPath ==
    IF sp_result = None
    THEN ~Connected(sp_start, sp_goal, sp_passable)
    ELSE /\ IsPath(sp_result, sp_start, sp_goal, sp_passable)
         /\ Len(sp_result) = Distance({sp_start}, sp_goal, sp_passable, 0) + 1

(* C14: a returned path begins at start, ends at goal, moves by 4-adjacent *)
(* steps, stays in passable, repeats no cell and is as short as any; None   *)
(* is returned only when no path exists.                                    *)
C14_ShortestPath == sp_called => ResultIsShortestPath

(* A returned path whose cell is not passable, beside passable cells. *)
C14_Witness ==
    /\ sp_called
    /\ sp_result # None
    /\ sp_passable # {}
    /\ \E i \in 1..Len(sp_result) : sp_result[i] \notin sp_passable

(* The same for the calls that reach the search, where start # goal or      *)
(* start is passable.                                                       *)
SearchedPathIsShortest ==
    (sp_called /\ (sp_start # sp_goal \/ sp_start \in sp_passable))
        => ResultIsShortestPath

(* A call answered with a path that bends around an impassable cell. *)
SearchedPathWitness ==
    /\ sp_called
    /\ sp_result # None
    /\ Len(sp_result) = 5
    /\ Abs(sp_start[1] - sp_goal[1]) + Abs(sp_start[2] - sp_goal[2]) = 2

-----------------------------------------------------------------------------
(* experiments.py: the driver loop with a step budget.  agent.act is any    *)
(* implementation of the Agent interface: it may return any action.         *)

(* max_steps: the budget of the loop (200 when the caller gives none). *)
MaxSteps == 3

(* while steps < max_steps, with the budget counted one step short. *)
simulate_budget_left_one_short(n) == n + 1 < MaxSteps

(* while steps < max_steps *)
simulate_budget_left(n) == n < MaxSteps

(* return result.outcome or "unknown" *)
simulate_outcome(out) == IF out = "none" THEN "unknown" ELSE out

(* One turn of the loop: act, step, count, and return on termination. *)
simulate_step ==
    /\ sim_result = "none"
    /\ simulate_budget_left(steps)
    /\ \E action \in Actions : step(action)
    /\ steps' = steps + 1
    /\ sim_result' = IF ret'.terminated THEN simulate_outcome(ret'.outcome) ELSE "none"

(* The loop's condition fails: return "timeout". *)
simulate_timeout ==
    /\ sim_result = "none"
    /\ ~simulate_budget_left(steps)
    /\ sim_result' = "timeout"
    /\ UNCHANGED <<worldVars, steps>>

BudgetNext ==
    \/ simulate_step /\ UNCHANGED <<plannerVars, logicalVars>>
    \/ simulate_timeout /\ UNCHANGED <<plannerVars, logicalVars>>

BudgetSpec == WorldInit /\ [][BudgetNext]_vars

(* C11: the world's outcome is unset exactly while terminated is false and  *)
(* is otherwise one of the four outcomes, in the world's fields and in      *)
(* every StepResult; "timeout" is no outcome of the world: the driver loop   *)
(* returns it exactly when the budget is spent and the episode has not       *)
(* terminated, and returns the world's outcome otherwise.                    *)
C11_OutcomeAndTimeout ==
    /\ (outcome = "none") <=> ~terminated
    /\ terminated => outcome \in Outcomes
    /\ "timeout" \notin Outcomes
    /\ \A action \in Actions :
          \A n \in {step_apply(action)} :
              /\ (n.result.outcome = "none") <=> ~n.result.terminated
              /\ n.result.terminated => n.result.outcome \in Outcomes
              /\ n.result.outcome = n.world.outcome
    /\ sim_result = "timeout" => (steps = MaxSteps /\ ~terminated)
    /\ sim_result \notin {"none", "timeout"} => (terminated /\ sim_result = outcome)
    /\ (steps = MaxSteps /\ ~terminated) => sim_result \in {"none", "timeout"}

(* The budget ran out on a live episode and the driver said so. *)
C11_Witness ==
    /\ sim_result = "timeout"
    /\ ~terminated
    /\ outcome = "none"
    /\ steps = MaxSteps

-----------------------------------------------------------------------------
(* bridge.py: the safe-square oracle, an external swipl process. *)

(* What becomes of the swipl process and its standard output:              *)
(*   not_found     subprocess.run raises FileNotFoundError                 *)
(*   nonzero_exit  proc.returncode != 0                                    *)
(*   empty_output  the stripped output is empty                            *)
(*   syntax_error  ast.literal_eval raises ValueError or SyntaxError       *)
(*   not_iterable  the output is a literal that is no collection ("42")    *)
(*   no_pairs      a collection none of whose items is a 2-tuple ("[1,2]") *)
(*   answer        the list of pairs provably_safe(S) binds                *)
EngineOutcomes ==
    {"not_found", "nonzero_exit", "empty_output", "syntax_error",
     "not_iterable", "no_pairs", "answer"}

(* The keys of the visited dict. *)
keys(visited) == DOMAIN visited

(* provably_safe of the knowledge base, by the breeze and stench rules:    *)
(* a cell is free of pits when visited or beside a visited cell without    *)
(* breeze, free of the Wumpus when it is dead, the cell visited, or beside *)
(* a visited cell without stench; safe when both.                          *)
provably_safe(grid_size, visited, wumpus_dead) ==
    {c \in (1..grid_size) \X (1..grid_size) :
        /\ \/ c \in keys(visited)
           \/ \E n \in neighbors(c, grid_size) \cap keys(visited) : ~visited[n].breeze
        /\ \/ wumpus_dead
           \/ c \in keys(visited)
           \/ \E n \in neighbors(c, grid_size) \cap keys(visited) : ~visited[n].stench}

(* compute_safe_squares: the returned set, or the exception that escapes. *)
compute_safe_squares(grid_size, visited, wumpus_dead, engine) ==
    CASE engine \in {"not_found", "nonzero_exit", "empty_output", "syntax_error"} ->
            [raised |-> "none", safe |-> keys(visited)]
      [] engine = "not_iterable" -> [raised |-> "TypeError", safe |-> {}]
      [] engine = "no_pairs" -> [raised |-> "none", safe |-> {}]
      [] OTHER -> [raised |-> "none", safe |-> provably_safe(grid_size, visited, wumpus_dead)]

-----------------------------------------------------------------------------
(* agent_prolog.py: PrologAgent.  The object is a record of its fields; act *)
(* yields the object after the call and the action returned, or the name of *)
(* the exception that leaves the call.                                       *)

Exceptions == {"AttributeError", "TypeError"}

(* PrologAgent.__init__ and reset. *)
PrologAgent(grid_size) ==
    [grid_size |-> grid_size, position |-> start, direction |-> "east",
     visited |-> <<>>, safe_known |-> {start}, plan |-> <<>>,
     wumpus_dead |-> FALSE, has_gold |-> FALSE, last_action |-> "none"]

_forward(pos, direction) ==
    IF direction = "north" THEN <<pos[1], pos[2] + 1>>
    ELSE IF direction = "south" THEN <<pos[1], pos[2] - 1>>
    ELSE IF direction = "east" THEN <<pos[1] + 1, pos[2]>>
    ELSE <<pos[1] - 1, pos[2]>>

_ingest_feedback(a, percept) ==
    [a EXCEPT
        !.direction = IF a.last_action = "turn_left" THEN turn_left(@)
                      ELSE IF a.last_action = "turn_right" THEN turn_right(@)
                      ELSE @,
        !.position = IF a.last_action = "forward" /\ ~percept.bump
                     THEN _forward(a.position, a.direction)
                     ELSE @,
        !.wumpus_dead = @ \/ percept.scream]

_remember_percept(a, percept) ==
    [a EXCEPT !.visited = [c \in keys(a.visited) \cup {a.position} |->
                              IF c = a.position THEN percept ELSE a.visited[c]]]

_neighbors(pos, grid_size) ==
    {n \in {<<pos[1] + offsets[k][1], pos[2] + offsets[k][2]>> : k \in 1..Len(offsets)} :
        1 <= n[1] /\ n[1] <= grid_size /\ 1 <= n[2] /\ n[2] <= grid_size}

(* abs(c[0] - position[0]) + abs(c[1] - position[1]) *)
manhattan(c, pos) ==
    (IF c[1] < pos[1] THEN pos[1] - c[1] ELSE c[1] - pos[1])
    + (IF c[2] < pos[2] THEN pos[2] - c[2] ELSE c[2] - pos[2])

(* sorted(cells, key=distance)[0]: a nearest cell.  Among equally near     *)
(* cells the first in the set's iteration order wins, which is any of them. *)
nearest(cells, pos) ==
    {c \in cells : \A d \in cells : manhattan(c, pos) <= manhattan(d, pos)}

(* percept.glimmer is read of every visited percept: the percepts of       *)
(* world.py define no such attribute, and reading it raises AttributeError. *)
carries_glimmer(percept) == "glimmer" \in DOMAIN percept

(* _choose_frontier: the targets it may return (None when there is no      *)
(* candidate), or the exception raised.                                     *)
_choose_frontier(a) ==
    LET candidates == a.safe_known \ keys(a.visited)
        glimmer_neighbors ==
            {n \in candidates :
                \E pos \in keys(a.visited) :
                    a.visited[pos].glimmer /\ n \in _neighbors(pos, a.grid_size)}
    IN  IF candidates = {} THEN [raised |-> "none", targets |-> {None}]
        ELSE IF \E pos \in keys(a.visited) : ~carries_glimmer(a.visited[pos])
        THEN [raised |-> "AttributeError", targets |-> {}]
        ELSE IF glimmer_neighbors # {}
        THEN [raised |-> "none", targets |-> nearest(glimmer_neighbors, a.position)]
        ELSE [raised |-> "none", targets |-> nearest(candidates, a.position)]

(* The turns with a reversal made of a single quarter turn. *)
_turn_sequence_quarter_reversal(from, goal) ==
    LET order == <<"north", "east", "south", "west">>
        diff == (IndexOf(order, goal) - IndexOf(order, from)) % 4
    IN  IF diff = 1 \/ diff = 2 THEN <<"turn_right">>
        ELSE IF diff = 3 THEN <<"turn_left">>
        ELSE <<>>

_turn_sequence(from, goal) ==
    LET order == <<"north", "east", "south", "west">>
        diff == (IndexOf(order, goal) - IndexOf(order, from)) % 4
    IN  IF diff = 1 THEN <<"turn_right">>
        ELSE IF diff = 2 THEN <<"turn_right", "turn_right">>
        ELSE IF diff = 3 THEN <<"turn_left">>
        ELSE <<>>

_actions_to_neighbor(current, nxt, facing) ==
    LET desired == IF nxt[1] > current[1] THEN "east"
                   ELSE IF nxt[1] < current[1] THEN "west"
                   ELSE IF nxt[2] > current[2] THEN "north"
                   ELSE "south"
    IN  [actions |-> (IF desired # facing THEN _turn_sequence(facing, desired) ELSE <<>>)
                     \o <<"forward">>,
         direction |-> desired]

(* The for loop of _queue_path_to over path[i..], facing current_dir. *)
RECURSIVE _queue_path_to_actions(_, _, _)
_queue_path_to_actions(path, i, current_dir) ==
    IF i > Len(path) THEN <<>>
    ELSE LET leg == _actions_to_neighbor(path[i - 1], path[i], current_dir)
         IN  leg.actions \o _queue_path_to_actions(path, i + 1, leg.direction)

_queue_path_to(a, target) ==
    IF target \notin a.safe_known THEN a
    ELSE LET path == shortest_path(a.position, target, a.safe_known)
         IN  IF path = None \/ Len(path) < 2 THEN a
             ELSE [a EXCEPT !.plan = _queue_path_to_actions(path, 2, a.direction)]

(* What act hands back: the object after the call, and the action returned *)
(* or the exception raised.                                                 *)
Acted(a, action) == [agent |-> a, action |-> action]

(* action = self.plan.popleft(), or the last-resort CLIMB of an empty plan. *)
act_pop(a) ==
    IF a.plan = <<>>
    THEN Acted([a EXCEPT !.last_action = "climb"], "climb")
    ELSE Acted([a EXCEPT !.plan = Tail(@), !.last_action = Head(a.plan)], Head(a.plan))

(* Lines 55-66 without the route to the start of line 59. *)
act_follow_climbs_in_place(a) ==
    IF a.plan = <<>>
    THEN Acted([a EXCEPT !.last_action = "climb"], "climb")
    ELSE act_pop(a)

(* Lines 55-66: climb at the start when nothing is planned, else route to  *)
(* the start, and follow the plan.                                          *)
act_follow(a) ==
    IF a.plan = <<>> /\ a.position = start
    THEN Acted([a EXCEPT !.last_action = "climb"], "climb")
    ELSE act_pop(IF a.plan = <<>> THEN _queue_path_to(a, start) ELSE a)

(* Lines 46-53 on a frontier choice: queue a path to each possible target. *)
act_explore(a, frontier) ==
    IF frontier.raised # "none" THEN {Acted(a, frontier.raised)}
    ELSE {act_follow(IF target = None THEN a ELSE _queue_path_to(a, target)) :
             target \in frontier.targets}

(* Lines 46-66, safe_known being up to date. *)
act_plan(a) ==
    IF a.plan # <<>> THEN {act_follow(a)}
    ELSE IF a.has_gold THEN {act_follow(_queue_path_to(a, start))}
    ELSE act_explore(a, _choose_frontier(a))

(* Lines 40-44: the oracle's answer joins safe_known with the visited cells. *)
act_query(a, oracle) ==
    IF oracle.raised # "none" THEN {Acted(a, oracle.raised)}
    ELSE act_plan([a EXCEPT !.safe_known = @ \cup oracle.safe \cup keys(a.visited)])

(* The glitter reflex with the plan left in place. *)
act_grab_keeps_plan(a) ==
    Acted([a EXCEPT !.last_action = "grab", !.has_gold = TRUE], "grab")

(* Lines 34-38: the glitter reflex. *)
act_grab(a) ==
    Acted([a EXCEPT !.plan = <<>>, !.last_action = "grab", !.has_gold = TRUE], "grab")

(* Lines 34-66 on the object that has taken the percept in. *)
act_decide(a, percept, engine) ==
    IF percept.glitter THEN {act_grab(a)}
    ELSE act_query(a, compute_safe_squares(a.grid_size, a.visited, a.wumpus_dead, engine))

(* PrologAgent.act: every outcome the call can have. *)
act(a, percept, engine) ==
    act_decide(_remember_percept(_ingest_feedback(a, percept), percept), percept, engine)

-----------------------------------------------------------------------------
(* main.py: run_episode in agent mode, the loop of act and step without a   *)
(* budget (its step counter is only printed and is left out).  sim_result   *)
(* holds the returned string; an exception of act leaves the loop and is    *)
(* kept in acted.                                                            *)

(* The percept objects act may be handed for a percept of the world: the  *)
(* Percept of world.py itself, or, from a caller whose percepts carry the  *)
(* attribute, the same with glimmer set either way.                         *)
handed(percept) ==
    IF glimmer_attr
    THEN {[breeze |-> percept.breeze, stench |-> percept.stench,
           glitter |-> percept.glitter, bump |-> percept.bump,
           scream |-> percept.scream, glimmer |-> g] : g \in BOOLEAN}
    ELSE {percept}

(* agent = PrologAgent(grid_size=size, ...); agent.reset();                *)
(* percept = world.initial_percept()                                        *)
EpisodeInit ==
    /\ agent = PrologAgent(size)
    /\ acted = "none"
    /\ driver_percept \in handed(initial_percept_value)
    /\ steps = 0
    /\ sim_result = "none"

(* One turn of the loop in which act returns an action. *)
run_episode_step(engines) ==
    /\ sim_result = "none"
    /\ acted \notin Exceptions
    /\ \E engine \in engines :
          \E r \in act(agent, driver_percept, engine) :
              /\ r.action \in Actions
              /\ step(r.action)
              /\ agent' = r.agent
              /\ acted' = r.action
    /\ driver_percept' \in handed(ret'.percept)
    /\ sim_result' = IF ret'.terminated THEN simulate_outcome(ret'.outcome) ELSE "none"
    /\ UNCHANGED <<steps, glimmer_attr>>

(* The turn of the loop in which act raises: the exception ends run_episode. *)
run_episode_raise(engines) ==
    /\ sim_result = "none"
    /\ acted \notin Exceptions
    /\ \E engine \in engines :
          \E r \in act(agent, driver_percept, engine) :
              /\ r.action \in Exceptions
              /\ agent' = r.agent
              /\ acted' = r.action
    /\ UNCHANGED <<worldVars, driverVars, driver_percept, glimmer_attr>>

(* Episodes of the PrologAgent on every small world, whatever the engine   *)
(* does, with and without glimmer on the percepts.                          *)
EpisodeStart == Init /\ PlannerIdle /\ glimmer_attr \in BOOLEAN /\ EpisodeInit

EpisodeNext ==
    \/ run_episode_step(EngineOutcomes) /\ UNCHANGED plannerVars
    \/ run_episode_raise(EngineOutcomes) /\ UNCHANGED plannerVars

EpisodeSpec == EpisodeStart /\ [][EpisodeNext]_vars

-----------------------------------------------------------------------------
(* The scenario of a pit-free world of the default size, the engine         *)
(* answering every query, the percepts being those of world.py.             *)

(* --size, default 4 *)
DefaultSize == 4

GoldRunStart ==
    /\ size = DefaultSize
    /\ pit_probability = 0
    /\ pits = {}
    /\ wumpus_pos \in WumpusChoices(size, pits)
    /\ gold_pos \in GoldChoices(size, pits, wumpus_pos)
    /\ agent_pos = start
    /\ agent_dir = "east"
    /\ wumpus_alive = TRUE
    /\ has_gold = FALSE
    /\ arrow_available = TRUE
    /\ terminated = FALSE
    /\ outcome = "none"
    /\ ret = StepResult(Percept(FALSE, FALSE, FALSE, FALSE, FALSE), FALSE, "none", FALSE)
    /\ screams = 0
    /\ PlannerIdle
    /\ glimmer_attr = FALSE
    /\ EpisodeInit

GoldRunNext ==
    \/ run_episode_step({"answer"}) /\ UNCHANGED plannerVars
    \/ run_episode_raise({"answer"}) /\ UNCHANGED plannerVars

(* The loop of run_episode keeps turning while it can. *)
GoldRunSpec == GoldRunStart /\ [][GoldRunNext]_vars /\ WF_vars(GoldRunNext)

(* C15: in a pit-free 4x4 world the episode of the PrologAgent under        *)
(* run_episode eventually terminates with outcome escaped_with_gold.        *)
C15_EventuallyEscapesWithGold ==
    <>(terminated /\ outcome = "escaped_with_gold" /\ sim_result = "escaped_with_gold")

(* The first act of such an episode has raised AttributeError on reading   *)
(* glimmer, the start being free of stench and its neighbours known safe.  *)
C15_Witness ==
    /\ size = DefaultSize
    /\ pits = {}
    /\ acted = "AttributeError"
    /\ ~terminated
    /\ ~driver_percept.stench
    /\ agent.safe_known = {start} \cup _neighbors(start, DefaultSize)

(* No episode of the scenario ends with the gold. *)
GoldRunNeverEscapesWithGold == outcome # "escaped_with_gold"

(* The other end of such an episode: stench on the start cell, nothing     *)
(* known safe beyond it, and the agent has climbed out without the gold.   *)
GoldRunGivesUp ==
    /\ size = DefaultSize
    /\ driver_percept.stench
    /\ terminated
    /\ outcome = "escaped_without_gold"
    /\ acted = "climb"

-----------------------------------------------------------------------------
(* Vocabulary of the PrologAgent's properties. *)

(* The direction faced after a quarter turn, by the compass. *)
Clockwise(d) ==
    CASE d = "north" -> "east" [] d = "east" -> "south"
      [] d = "south" -> "west" [] d = "west" -> "north"

(* Where a walker at pos facing d stands after the actions, every forward   *)
(* step landing on a cell of cells; <<0, 0>> when a step leaves cells.      *)
RECURSIVE Walk(_, _, _, _)
Walk(pos, d, actions, cells) ==
    IF actions = <<>> THEN pos
    ELSE IF Head(actions) = "turn_right" THEN Walk(pos, Clockwise(d), Tail(actions), cells)
    ELSE IF Head(actions) = "turn_left"
    THEN Walk(pos, Clockwise(Clockwise(Clockwise(d))), Tail(actions), cells)
    ELSE IF Head(actions) = "forward" /\ Ahead(pos, d) \in cells
    THEN Walk(Ahead(pos, d), d, Tail(actions), cells)
    ELSE <<0, 0>>

(* The percept objects with glitter set that act may be handed. *)
GlitterPercepts ==
    UNION {handed(Percept(breeze, stench, TRUE, bump, scream)) :
               breeze \in BOOLEAN, stench \in BOOLEAN, bump \in BOOLEAN,
               scream \in BOOLEAN}

(* The outcome r of act on object a, which holds the gold and no plan and   *)
(* has just grabbed, targets the start: at the start it climbs; elsewhere   *)
(* the action returned and the plan left walk from a's cell to the start    *)
(* over cells known safe, or no such walk exists and it climbs.             *)
TargetsStart(a, r) ==
    IF a.position = start THEN r.action = "climb" /\ r.agent.plan = <<>>
    ELSE \/ Walk(a.position, a.direction, <<r.action>> \o r.agent.plan,
                 r.agent.safe_known) = start
         \/ /\ r.action = "climb"
            /\ r.agent.plan = <<>>
            /\ ~Connected(a.position, start, r.agent.safe_known)

(* C16: act on a percept with glitter empties the plan and returns GRAB,    *)
(* whatever the plan was; the act that follows, the agent holding the gold  *)
(* and no plan, targets the start cell (where the oracle call returns).     *)
C16_GlitterThenHome ==
    /\ \A p \in GlitterPercepts : \A engine \in EngineOutcomes :
          \A r \in act(agent, p, engine) :
              /\ r.action = "grab"
              /\ r.agent.plan = <<>>
              /\ r.agent.has_gold
    /\ (acted = "grab" /\ sim_result = "none") =>
          /\ agent.has_gold
          /\ agent.plan = <<>>
          /\ \A engine \in EngineOutcomes :
                \A r \in act(agent, driver_percept, engine) :
                    r.action \in Exceptions \/ TargetsStart(agent, r)

(* With the percepts of world.py: the gold lay on the start cell, act      *)
(* grabbed it on the glitter, and the act that followed climbed out.        *)
C16_Witness ==
    /\ ~glimmer_attr
    /\ gold_pos = start
    /\ agent.has_gold
    /\ agent.plan = <<>>
    /\ acted = "climb"
    /\ sim_result = "escaped_with_gold"

(* With percepts that carry glimmer: the gold was grabbed away from the    *)
(* start and the act that followed has returned the turn that opens the    *)
(* way back, the rest of it being planned.                                  *)
GoldCarriedHome ==
    /\ has_gold
    /\ agent.has_gold
    /\ gold_pos # start
    /\ agent_pos = gold_pos
    /\ acted \in {"turn_left", "turn_right"}
    /\ agent.plan # <<>>
    /\ Walk(agent_pos, agent_dir, agent.plan, agent.safe_known) = start

(* A plan is queued when a percept with glitter is about to arrive. *)
PlanQueuedBeforeGlitter ==
    /\ agent.plan # <<>>
    /\ sim_result = "none"
    /\ acted \notin Exceptions

(* The engine outcomes that are failures of the oracle. *)
FailingOutcomes == EngineOutcomes \ {"answer"}

(* The failures compute_safe_squares tests for. *)
HandledOutcomes == {"not_found", "nonzero_exit", "empty_output", "syntax_error"}

(* On the engine outcomes of failures, the oracle call returns the visited *)
(* positions and the next act returns an action.                            *)
FallsBack(failures) ==
    \A engine \in failures :
        /\ compute_safe_squares(agent.grid_size, agent.visited, agent.wumpus_dead, engine)
               = [raised |-> "none", safe |-> keys(agent.visited)]
        /\ (sim_result = "none" /\ acted \notin Exceptions) =>
               \A r \in act(agent, driver_percept, engine) : r.action \in Actions

(* C17: when the oracle fails (engine not found, non-zero exit, empty      *)
(* output, output that is no collection of position pairs) the oracle call *)
(* returns exactly the visited positions, raises nothing, and act returns  *)
(* an action.                                                               *)
C17_OracleFailureFallsBack == FallsBack(FailingOutcomes)

(* The same for the four failures the code tests for. *)
HandledFailuresFallBack == FallsBack(HandledOutcomes)

(* The TypeError of iterating a parsed output that is no collection has    *)
(* left act and ended the episode.                                          *)
C17_Witness ==
    /\ acted = "TypeError"
    /\ sim_result = "none"
    /\ ~terminated

(* The engine failed outright and act still returned: the agent, knowing   *)
(* only the start safe, climbed out.                                        *)
HandledFailureWitness ==
    /\ acted = "climb"
    /\ agent.safe_known = {start}
    /\ ~has_gold
    /\ sim_result = "escaped_without_gold"
    /\ ~ret.percept.stench
    /\ ~ret.percept.breeze

-----------------------------------------------------------------------------
(* agent_qlearn.py: QLearningAgent, the BeliefAgent.  The object is a       *)
(* record of its fields.  The random generator is not part of it: a draw   *)
(* of rng is any of the values it can yield.  step_count is only ever       *)
(* incremented and is left out.  A float is a whole number of units, QUnit  *)
(* of them making 1.0, and a factor (alpha, gamma, epsilon) is the pair of  *)
(* a numerator and a denominator; with the factors of the training runs     *)
(* modelled, halves, every product of an episode is a whole number of units *)
(* and equals the float the code computes.  pending_reward is None or the   *)
(* one staged reward, as a sequence.                                        *)

(* The units of 1.0: a quarter for each update a training episode can make. *)
QUnit == 4 ^ MaxSteps

(* x times the factor r *)
times(x, r) == (r[1] * x) \div r[2]

(* QConfig *)
QConfig(alpha, gamma, epsilon) == [alpha |-> alpha, gamma |-> gamma, epsilon |-> epsilon]

(* QConfig(): alpha 0.2, gamma 0.9, epsilon 0.1 *)
DefaultQConfig == QConfig(<<1, 5>>, <<9, 10>>, <<1, 10>>)

(* if self.stuck_steps >= 8 *)
StuckForward == 8

(* elif self.stuck_steps >= 16 *)
StuckExplore == 16

(* or self.stuck_steps >= 20: no comparison tells a larger count apart, so *)
(* the count is kept up to this value.                                      *)
StuckRisky == 20

(* QLearningAgent.__init__ and reset. *)
QLearningAgent(grid_size, config, qtable) ==
    [grid_size |-> grid_size, cfg |-> config, q |-> qtable,
     pending_reward |-> <<>>, pending_done |-> FALSE,
     position |-> start, direction |-> "east",
     has_gold |-> FALSE, has_arrow |-> TRUE, wumpus_dead |-> FALSE,
     last_action |-> "none", prev_state |-> None, prev_action |-> "none",
     visited_mask |-> 0, breeze_mask |-> 0, no_breeze_mask |-> 0,
     stench_mask |-> 0, no_stench_mask |-> 0,
     safe_cells |-> {start}, maybe_pit |-> {}, maybe_wumpus |-> {},
     confirmed_pit |-> {}, confirmed_no_pit |-> {start},
     stuck_steps |-> 0, last_pos |-> start]

(* _ingest_feedback that moves the position forward even after a bump. *)
q_ingest_feedback_ignores_bump(a, p) ==
    LET position == IF a.last_action = "forward"
                    THEN _forward(a.position, a.direction)
                    ELSE a.position
    IN  [a EXCEPT
            !.direction = IF a.last_action = "turn_left" THEN turn_left(@)
                          ELSE IF a.last_action = "turn_right" THEN turn_right(@)
                          ELSE @,
            !.position = position,
            !.has_arrow = @ /\ a.last_action # "shoot",
            !.wumpus_dead = @ \/ p.scream,
            !.stuck_steps = IF position = a.last_pos
                            THEN (IF @ < StuckRisky THEN @ + 1 ELSE @)
                            ELSE 0,
            !.last_pos = position]

(* QLearningAgent._ingest_feedback *)
q_ingest_feedback(a, p) ==
    LET position == IF a.last_action = "forward" /\ ~p.bump
                    THEN _forward(a.position, a.direction)
                    ELSE a.position
    IN  [a EXCEPT
            !.direction = IF a.last_action = "turn_left" THEN turn_left(@)
                          ELSE IF a.last_action = "turn_right" THEN turn_right(@)
                          ELSE @,
            !.position = position,
            !.has_arrow = @ /\ a.last_action # "shoot",
            !.wumpus_dead = @ \/ p.scream,
            !.stuck_steps = IF position = a.last_pos
                            THEN (IF @ < StuckRisky THEN @ + 1 ELSE @)
                            ELSE 0,
            !.last_pos = position]

(* 1 << ((y - 1) * grid_size + (x - 1)) *)
_bit(x, y, grid_size) == 2 ^ ((y - 1) * grid_size + (x - 1))

(* mask & b *)
has_bit(mask, b) == (mask \div b) % 2 = 1

(* mask |= b *)
set_bit(mask, b) == IF has_bit(mask, b) THEN mask ELSE mask + b

(* mask &= ~b *)
clear_bit(mask, b) == IF has_bit(mask, b) THEN mask - b ELSE mask

(* The belief update that remembers stench after the Wumpus' death. *)
_update_belief_remembers_stench(a, p) ==
    LET b == _bit(a.position[1], a.position[2], a.grid_size)
    IN  [a EXCEPT
            !.visited_mask = set_bit(@, b),
            !.breeze_mask = IF p.breeze THEN set_bit(@, b) ELSE clear_bit(@, b),
            !.no_breeze_mask = IF p.breeze THEN clear_bit(@, b) ELSE set_bit(@, b),
            !.stench_mask = IF p.stench THEN set_bit(@, b) ELSE clear_bit(@, b),
            !.no_stench_mask = IF p.stench THEN clear_bit(@, b) ELSE set_bit(@, b)]

_update_belief(a, p) ==
    LET b == _bit(a.position[1], a.position[2], a.grid_size)
        st == p.stench /\ ~a.wumpus_dead
    IN  [a EXCEPT
            !.visited_mask = set_bit(@, b),
            !.breeze_mask = IF p.breeze THEN set_bit(@, b) ELSE clear_bit(@, b),
            !.no_breeze_mask = IF p.breeze THEN clear_bit(@, b) ELSE set_bit(@, b),
            !.stench_mask = IF st THEN set_bit(@, b) ELSE clear_bit(@, b),
            !.no_stench_mask = IF st THEN clear_bit(@, b) ELSE set_bit(@, b)]

(* Lines 415-419: the current cell is safe. *)
_update_safety_here(a) ==
    [a EXCEPT
        !.safe_cells = @ \cup {a.position},
        !.confirmed_no_pit = @ \cup {a.position},
        !.maybe_pit = @ \ {a.position},
        !.maybe_wumpus = @ \ {a.position}]

(* The breeze branch with the inferred pit also kept as safe. *)
_update_safety_breeze_pit_stays_safe(a, p, around) ==
    LET unconfirmed == around \ a.confirmed_no_pit
    IN  IF ~p.breeze
        THEN [a EXCEPT
                !.confirmed_no_pit = @ \cup around,
                !.maybe_pit = @ \ around,
                !.safe_cells = @ \cup around]
        ELSE IF Cardinality(unconfirmed) = 1
        THEN [a EXCEPT
                !.confirmed_pit = @ \cup unconfirmed,
                !.maybe_pit = @ \ unconfirmed,
                !.safe_cells = @ \cup unconfirmed]
        ELSE [a EXCEPT !.maybe_pit = @ \cup unconfirmed]

(* The breeze branch without the single-candidate elimination. *)
_update_safety_breeze_only_suspects(a, p, around) ==
    IF ~p.breeze
    THEN [a EXCEPT
            !.confirmed_no_pit = @ \cup around,
            !.maybe_pit = @ \ around,
            !.safe_cells = @ \cup around]
    ELSE [a EXCEPT !.maybe_pit = @ \cup (around \ a.confirmed_no_pit)]

(* The breeze branch with the inferred pit left among the suspects. *)
_update_safety_breeze_keeps_suspect(a, p, around) ==
    LET unconfirmed == around \ a.confirmed_no_pit
    IN  IF ~p.breeze
        THEN [a EXCEPT
                !.confirmed_no_pit = @ \cup around,
                !.maybe_pit = @ \ around,
                !.safe_cells = @ \cup around]
        ELSE IF Cardinality(unconfirmed) = 1
        THEN [a EXCEPT
                !.confirmed_pit = @ \cup unconfirmed,
                !.maybe_pit = @ \cup unconfirmed]
        ELSE [a EXCEPT !.maybe_pit = @ \cup unconfirmed]

(* Lines 421-438: no breeze clears the neighbours of pits; breeze suspects *)
(* the neighbours not confirmed pit-free, and a single one is a pit.       *)
_update_safety_breeze(a, p, around) ==
    LET unconfirmed == around \ a.confirmed_no_pit
    IN  IF ~p.breeze
        THEN [a EXCEPT
                !.confirmed_no_pit = @ \cup around,
                !.maybe_pit = @ \ around,
                !.safe_cells = @ \cup around]
        ELSE IF Cardinality(unconfirmed) = 1
        THEN [a EXCEPT
                !.confirmed_pit = @ \cup unconfirmed,
                !.maybe_pit = @ \ unconfirmed]
        ELSE [a EXCEPT !.maybe_pit = @ \cup unconfirmed]

(* Lines 440-458: no stench, or a dead Wumpus, clears the neighbours of the *)
(* Wumpus; stench suspects the neighbours not known safe.                   *)
_update_safety_stench(a, p, around) ==
    IF ~p.stench \/ a.wumpus_dead
    THEN [a EXCEPT
            !.maybe_wumpus = @ \ around,
            !.safe_cells = @ \cup {n \in around :
                                      n \in a.confirmed_no_pit /\ n \notin a.confirmed_pit}]
    ELSE [a EXCEPT !.maybe_wumpus = @ \cup (around \ a.safe_cells)]

_update_safety(a, p) ==
    LET around == _neighbors(a.position, a.grid_size)
    IN  _update_safety_stench(
            _update_safety_breeze(_update_safety_here(a), p, around), p, around)

int(b) == IF b THEN 1 ELSE 0

(* _encode_state reads p.glimmer: AttributeError on a percept without it. *)
_encode_state(a, p) ==
    <<a.position[1], a.position[2],
      IndexOf(<<"north", "east", "south", "west">>, a.direction) - 1,
      int(a.has_gold), int(a.has_arrow), int(a.wumpus_dead),
      a.visited_mask, a.breeze_mask, a.no_breeze_mask, a.stench_mask, a.no_stench_mask,
      int(p.glitter), int(p.glimmer)>>

(* The legal actions with SHOOT offered whatever is sensed. *)
_legal_actions_shoots_blind(a, p) ==
    {"turn_left", "turn_right", "forward"}
    \cup (IF p.glitter THEN {"grab"} ELSE {})
    \cup (IF a.position = start /\ a.has_gold THEN {"climb"} ELSE {})
    \cup (IF a.has_arrow /\ ~a.wumpus_dead THEN {"shoot"} ELSE {})

_legal_actions(a, p) ==
    {"turn_left", "turn_right", "forward"}
    \cup (IF p.glitter THEN {"grab"} ELSE {})
    \cup (IF a.position = start /\ a.has_gold THEN {"climb"} ELSE {})
    \cup (IF /\ a.has_arrow /\ p.stench /\ ~a.wumpus_dead
             /\ \/ _forward(a.position, a.direction) \notin a.safe_cells
                \/ _forward(a.position, a.direction) \in a.maybe_wumpus
          THEN {"shoot"} ELSE {})

(* The filter letting forward through whatever lies ahead. *)
_filter_safe_actions_keeps_forward(a, actions, risky) == actions

_filter_safe_actions(a, actions, risky) ==
    LET ahead == _forward(a.position, a.direction)
        blocked == \/ ahead \in a.confirmed_pit
                   \/ ~risky /\ ahead \in a.maybe_pit /\ ahead \notin a.confirmed_no_pit
                   \/ ahead \in a.maybe_wumpus /\ ~a.wumpus_dead /\ ~risky
    IN  IF blocked THEN actions \ {"forward"} ELSE actions

(* float(self.q.get(s, {}).get(a, 0.0)) *)
_get_q(q, s, action) == IF <<s, action>> \in DOMAIN q THEN q[<<s, action>>] ELSE 0

(* self.q.setdefault(s, {})[a] = float(v) *)
_set_q(q, s, action, v) ==
    [k \in DOMAIN q \cup {<<s, action>>} |-> IF k = <<s, action>> THEN v ELSE q[k]]

(* max(values, default=0.0) *)
max(values) == IF values = {} THEN 0 ELSE CHOOSE x \in values : \A y \in values : y <= x

(* The update that bootstraps from the next state even when done. *)
_q_update_always_bootstraps(a, prev_s, prev_a, r, next_s, done) ==
    LET old == _get_q(a.q, prev_s, prev_a)
        max_next == max({a.q[k] : k \in {k \in DOMAIN a.q : k[1] = next_s}})
        target == r * QUnit + times(max_next, a.cfg.gamma)
    IN  [a EXCEPT !.q = _set_q(@, prev_s, prev_a, old + times(target - old, a.cfg.alpha))]

_q_update(a, prev_s, prev_a, r, next_s, done) ==
    LET old == _get_q(a.q, prev_s, prev_a)
        max_next == max({a.q[k] : k \in {k \in DOMAIN a.q : k[1] = next_s}})
        target == IF done THEN r * QUnit
                  ELSE r * QUnit + times(max_next, a.cfg.gamma)
    IN  [a EXCEPT !.q = _set_q(@, prev_s, prev_a, old + times(target - old, a.cfg.alpha))]

(* QLearningAgent.observe *)
observe(a, reward, done) ==
    [a EXCEPT !.pending_reward = <<reward>>, !.pending_done = done]

(* Whether prev_state, prev_action and pending_reward are all set. *)
pending(a) == a.prev_state # None /\ a.prev_action # "none" /\ a.pending_reward # <<>>

(* finalize_episode that forgets to clear the staged reward. *)
finalize_episode_keeps_reward(a) ==
    IF ~pending(a) THEN a
    ELSE LET old == _get_q(a.q, a.prev_state, a.prev_action)
             target == a.pending_reward[1] * QUnit
         IN  [a EXCEPT !.q = _set_q(@, a.prev_state, a.prev_action,
                                    old + times(target - old, a.cfg.alpha))]

(* QLearningAgent.finalize_episode *)
finalize_episode(a) ==
    IF ~pending(a) THEN a
    ELSE LET old == _get_q(a.q, a.prev_state, a.prev_action)
             target == a.pending_reward[1] * QUnit
         IN  [a EXCEPT !.q = _set_q(@, a.prev_state, a.prev_action,
                                    old + times(target - old, a.cfg.alpha)),
                       !.pending_reward = <<>>,
                       !.pending_done = FALSE]

(* The draw of rng.random() < epsilon picks any of the actions given when  *)
(* epsilon is positive; otherwise one of those with the largest Q-value.   *)
_epsilon_greedy(a, s, legal, epsilon) ==
    (IF epsilon[1] > 0 THEN legal ELSE {})
    \cup {x \in legal : \A y \in legal : _get_q(a.q, s, y) <= _get_q(a.q, s, x)}

(* Moving toward the target without looking at the heading. *)
_move_toward_heedless(a, target_pos, legal) ==
    IF "forward" \in legal THEN "forward" ELSE "turn_left"

_move_toward(a, target_pos, legal) ==
    LET dx == target_pos[1] - a.position[1]
        dy == target_pos[2] - a.position[2]
        desired == IF dx > 0 THEN "east"
                   ELSE IF dx < 0 THEN "west"
                   ELSE IF dy > 0 THEN "north"
                   ELSE "south"
    IN  IF a.direction = desired /\ "forward" \in legal THEN "forward"
        ELSE IF turn_left(a.direction) = desired THEN "turn_left"
        ELSE IF turn_right(a.direction) = desired THEN "turn_right"
        ELSE "turn_left"

(* Lines 258-283 on the path the breadth-first search found (None when it  *)
(* found none).  The search is that of shortest_path: the same queue, the   *)
(* same order of neighbours, a neighbour admitted when it is in safe_cells. *)
_return_home_step(a, s, legal, path) ==
    IF path # None /\ Len(path) >= 2 THEN {_move_toward(a, path[2], legal)}
    ELSE IF _forward(a.position, a.direction) \in a.safe_cells /\ "forward" \in legal
    THEN {"forward"}
    ELSE IF "turn_left" \in legal THEN {"turn_left"}
    ELSE IF "turn_right" \in legal THEN {"turn_right"}
    ELSE _epsilon_greedy(a, s, legal, <<0, 1>>)

_return_home(a, s, legal) ==
    IF a.position = start THEN {"climb"}
    ELSE _return_home_step(a, s, legal,
             shortest_path_search(Search(<<a.position>>, {a.position}, <<>>),
                                  start, a.safe_cells))

(* Lines 138-158: the actions left by the safety filter, risky when none   *)
(* is left or the agent has been stuck for long, all when still none.       *)
q_act_safe_legal(a, legal) ==
    LET safe == _filter_safe_actions(a, legal, FALSE)
        risky == IF safe = {} \/ a.stuck_steps >= StuckRisky
                 THEN _filter_safe_actions(a, legal, TRUE)
                 ELSE safe
    IN  IF risky = {} THEN legal ELSE risky

(* Lines 151-164: the choice among safe_legal, by how long the agent has   *)
(* been stuck.                                                              *)
q_act_explore(a, p, s, safe_legal) ==
    IF a.stuck_steps >= StuckForward
    THEN IF ~p.breeze /\ ~p.bump /\ "forward" \in safe_legal THEN {"forward"}
         ELSE IF a.stuck_steps >= StuckExplore
         THEN _epsilon_greedy(a, s, safe_legal, <<7, 10>>)
         ELSE IF {"turn_left", "turn_right"} \cap safe_legal # {}
         THEN {"turn_left", "turn_right"} \cap safe_legal
         ELSE _epsilon_greedy(a, s, safe_legal, a.cfg.epsilon)
    ELSE _epsilon_greedy(a, s, safe_legal, a.cfg.epsilon)

(* Lines 129-164: the actions the selection may settle on. *)
q_act_select(a, p, s, legal) ==
    IF p.bump THEN {"turn_left", "turn_right"}
    ELSE IF a.has_gold THEN _return_home(a, s, legal)
    ELSE q_act_explore(a, p, s, q_act_safe_legal(a, legal))

(* prev_state, prev_action and last_action after the choice of an action. *)
q_act_record(a, s, action) ==
    Acted([a EXCEPT !.prev_state = s, !.prev_action = action, !.last_action = action],
          action)

(* The reflexes recording nothing for the next update. *)
q_act_reflex_unrecorded(a, p) ==
    IF p.glitter /\ ~a.has_gold
    THEN {Acted([a EXCEPT !.last_action = "grab", !.has_gold = TRUE], "grab")}
    ELSE {Acted([a EXCEPT !.last_action = "climb"], "climb")}

(* Lines 102-115: the reflexes, GRAB before CLIMB. *)
q_act_reflex(a, p) ==
    IF p.glitter /\ ~a.has_gold
    THEN {q_act_record([a EXCEPT !.has_gold = TRUE], _encode_state(a, p), "grab")}
    ELSE {q_act_record(a, _encode_state(a, p), "climb")}

(* Lines 97-99: the object that has taken the percept in. *)
q_act_sense(a, p) == _update_safety(_update_belief(q_ingest_feedback(a, p), p), p)

(* Whether one of the reflexes answers the call. *)
q_act_is_reflex(a, p) ==
    (p.glitter /\ ~a.has_gold) \/ (a.position = start /\ a.has_gold)

(* Lines 118-119: if self.has_gold: self.cfg.epsilon = 0.0 *)
q_act_exploit(a) == IF a.has_gold THEN [a EXCEPT !.cfg.epsilon = <<0, 1>>] ELSE a

(* The delayed update that leaves the staged reward in place. *)
q_act_update_keeps_reward(a, s) ==
    IF pending(a)
    THEN _q_update(a, a.prev_state, a.prev_action, a.pending_reward[1], s, a.pending_done)
    ELSE a

(* Lines 123-126: the delayed update of the pending transition into s. *)
q_act_update(a, s) ==
    IF pending(a)
    THEN [_q_update(a, a.prev_state, a.prev_action, a.pending_reward[1], s, a.pending_done)
             EXCEPT !.pending_reward = <<>>, !.pending_done = FALSE]
    ELSE a

(* Lines 128-169 on the object after the delayed update. *)
q_act_choose(a, p, s) ==
    {q_act_record(a, s, action) : action \in q_act_select(a, p, s, _legal_actions(a, p))}

(* Lines 102-169 on the object that has taken the percept in.  Each path   *)
(* encodes the state before it records anything, which raises on a percept *)
(* without glimmer; the learning path has set epsilon by then.              *)
q_act_decide(a, p) ==
    IF ~carries_glimmer(p)
    THEN {Acted(IF q_act_is_reflex(a, p) THEN a ELSE q_act_exploit(a), "AttributeError")}
    ELSE IF q_act_is_reflex(a, p) THEN q_act_reflex(a, p)
    ELSE q_act_choose(q_act_update(q_act_exploit(a), _encode_state(a, p)), p,
                      _encode_state(a, p))

(* QLearningAgent.act: every outcome the call can have. *)
q_act(a, p) == q_act_decide(q_act_sense(a, p), p)

(* experiments.py, simulate_qlearn_episode, and qlearn_eval.py: the loop of *)
(* act and step on a world.  Its budget of steps is beyond the horizon of   *)
(* the worlds modelled and is left out: every state of a budgeted loop is a *)
(* state of this one.                                                       *)

(* agent = QLearningAgent(grid_size=size); agent.reset();                  *)
(* percept = world.initial_percept()                                        *)
BeliefInit ==
    /\ agent = QLearningAgent(size, DefaultQConfig, <<>>)
    /\ acted = "none"
    /\ driver_percept \in handed(initial_percept_value)
    /\ steps = 0
    /\ sim_result = "none"

(* One turn of the loop in which act returns an action. *)
simulate_qlearn_step ==
    /\ sim_result = "none"
    /\ acted \notin Exceptions
    /\ \E r \in q_act(agent, driver_percept) :
          /\ r.action \in Actions
          /\ step(r.action)
          /\ agent' = r.agent
          /\ acted' = r.action
    /\ driver_percept' \in handed(ret'.percept)
    /\ sim_result' = IF ret'.terminated THEN simulate_outcome(ret'.outcome) ELSE "none"
    /\ UNCHANGED <<steps, glimmer_attr>>

(* The turn of the loop in which act raises: the exception ends the loop. *)
simulate_qlearn_raise ==
    /\ sim_result = "none"
    /\ acted \notin Exceptions
    /\ \E r \in q_act(agent, driver_percept) :
          /\ r.action \in Exceptions
          /\ agent' = r.agent
          /\ acted' = r.action
    /\ UNCHANGED <<worldVars, driverVars, driver_percept, glimmer_attr>>

(* Episodes of the BeliefAgent on every small world, with and without       *)
(* glimmer on the percepts.                                                 *)
BeliefStart == Init /\ PlannerIdle /\ glimmer_attr \in BOOLEAN /\ BeliefInit

BeliefNext ==
    \/ simulate_qlearn_step /\ UNCHANGED plannerVars
    \/ simulate_qlearn_raise /\ UNCHANGED plannerVars

BeliefSpec == BeliefStart /\ [][BeliefNext]_vars

-----------------------------------------------------------------------------
(* The safety sets of the BeliefAgent. *)

(* C18: in every state of a BeliefAgent's episode on a world, no cell is   *)
(* both in confirmed_pit and in safe_cells, and every cell of               *)
(* confirmed_no_pit that is not in confirmed_pit is in safe_cells.          *)
C18_SafetySetsConsistent ==
    /\ agent.confirmed_pit \cap agent.safe_cells = {}
    /\ (agent.confirmed_no_pit \ agent.confirmed_pit) \subseteq agent.safe_cells

(* The agent has deduced a pit beside cells it holds to be safe. *)
C18_Witness ==
    /\ agent.confirmed_pit # {}
    /\ \E c \in agent.confirmed_pit :
          _neighbors(c, agent.grid_size) \cap agent.safe_cells # {}
    /\ Cardinality(agent.confirmed_no_pit) >= 3

(* What keeps the two sets apart on a world: the deductions are sound.  A  *)
(* cell held pit-free has no pit, and a confirmed pit is a pit.             *)
DeductionsAreSound ==
    /\ agent.confirmed_no_pit \cap pits = {}
    /\ agent.confirmed_pit \subseteq pits
    /\ agent.safe_cells = agent.confirmed_no_pit

(* On the percepts of world.py, which carry no glimmer, the first act     *)
(* raises and the episode ends before any pit is deduced.                  *)
NoPitDeducedOnWorldPercepts ==
    ~glimmer_attr =>
        /\ agent.confirmed_pit = {}
        /\ agent.position = start
        /\ acted \in {"none", "AttributeError"}

-----------------------------------------------------------------------------
(* The reflexes of the BeliefAgent. *)

(* The loop is about to call act on driver_percept. *)
ActPending == sim_result = "none" /\ acted \notin Exceptions

(* The outcome r of act on the sensed object a and percept p is the given  *)
(* action, recorded with the state encoded before the reflex changed it.   *)
ReflexRecorded(a, p, r, action) ==
    /\ r.action = action
    /\ r.agent.last_action = action
    /\ r.agent.prev_action = action
    /\ r.agent.prev_state = _encode_state(a, p)

(* Every outcome of the pending act: GRAB on glitter without gold, CLIMB   *)
(* on the start cell with gold, each recorded.                              *)
ReflexesRecorded ==
    \A a \in {q_act_sense(agent, driver_percept)} :
        \A r \in q_act(agent, driver_percept) :
            /\ driver_percept.glitter /\ ~a.has_gold
                  => ReflexRecorded(a, driver_percept, r, "grab")
            /\ a.position = start /\ a.has_gold
                  => ReflexRecorded(a, driver_percept, r, "climb")

(* C20: act returns GRAB whenever the percept has glitter and the agent    *)
(* holds no gold, and CLIMB whenever the agent is on the start cell holding *)
(* gold; either way the encoded state and the reflex action become          *)
(* prev_state and prev_action.                                              *)
C20_ReflexesRecorded == ActPending => ReflexesRecorded

(* act was handed a glittering percept of world.py and raised. *)
C20_Witness ==
    /\ ~glimmer_attr
    /\ driver_percept.glitter
    /\ ~agent.has_gold
    /\ acted = "AttributeError"
    /\ agent.prev_action = "none"

(* On percepts that carry glimmer the reflexes are as stated. *)
ReflexesOnGlimmerPercepts == glimmer_attr /\ ActPending => ReflexesRecorded

(* The GRAB reflex has acted away from the start. *)
GrabReflexActed ==
    /\ acted = "grab"
    /\ agent.prev_action = "grab"
    /\ agent.has_gold
    /\ agent.position # start
    /\ agent.prev_state[4] = 0
    /\ agent.prev_state[12] = 1

(* The CLIMB reflex has ended an episode with the gold. *)
ClimbReflexActed ==
    /\ acted = "climb"
    /\ agent.prev_action = "climb"
    /\ agent.prev_state[4] = 1
    /\ sim_result = "escaped_with_gold"
    /\ gold_pos # start

-----------------------------------------------------------------------------
(* The deduction of pits on the 2x2 grid.  _update_belief and               *)
(* _update_safety are applied along any walk of the grid from the start,    *)
(* whatever breeze and stench are reported on the way: what the two calls   *)
(* do depends on the position and wumpus_dead that _ingest_feedback has     *)
(* left, and on the percept.                                                *)

SafetyInit ==
    /\ agent = QLearningAgent(2, DefaultQConfig, <<>>)
    /\ acted = "none"
    /\ driver_percept = "none"
    /\ glimmer_attr = FALSE
    /\ steps = 0
    /\ sim_result = "none"

(* The first call finds the agent on the start; a later one finds it where *)
(* it was or on a neighbouring cell.                                        *)
_update_safety_call ==
    /\ \E pos \in {agent.position}
                  \cup (IF agent.visited_mask = 0 THEN {}
                        ELSE _neighbors(agent.position, agent.grid_size)) :
          \E breeze \in BOOLEAN, stench \in BOOLEAN, scream \in BOOLEAN :
              \E p \in {Percept(breeze, stench, FALSE, FALSE, scream)} :
                  /\ agent' = _update_safety(
                                  _update_belief(
                                      [agent EXCEPT !.position = pos,
                                                    !.wumpus_dead = @ \/ scream], p), p)
    /\ UNCHANGED <<acted, driver_percept, glimmer_attr>>

SafetyStart == SafetyInit /\ WorldIdle /\ PlannerIdle

SafetyNext == _update_safety_call /\ UNCHANGED <<worldVars, plannerVars, driverVars>>

SafetySpec == SafetyStart /\ [][SafetyNext]_vars

(* The agent has been on cell c, and the report there was last of breeze   *)
(* (or last of none).                                                       *)
Reported(c, breeze) ==
    /\ has_bit(agent.visited_mask, _bit(c[1], c[2], agent.grid_size))
    /\ has_bit(IF breeze THEN agent.breeze_mask ELSE agent.no_breeze_mask,
               _bit(c[1], c[2], agent.grid_size))

NoBreezeClearsTheCorner ==
    /\ agent.grid_size = 2
    /\ Reported(<<1, 2>>, FALSE)
    /\ Reported(<<2, 1>>, FALSE)
    /\ agent.confirmed_pit = {}
    => <<2, 2>> \in agent.confirmed_no_pit \cap agent.safe_cells

(* On the world of the claim, a single pit on (2,2) of a 2x2 grid, breeze  *)
(* is what both cells report, and a visit of either deduces the pit.        *)
PitDeducedOnWorld ==
    /\ size = 2
    /\ pits = {<<2, 2>>}
    /\ agent.position \in {<<1, 2>>, <<2, 1>>}
    => /\ Reported(agent.position, TRUE)
       /\ agent.confirmed_pit = {<<2, 2>>}

(* The Wumpus is on one of the two cells; the agent stands on the other. *)
PitDeducedOnWorldWitness ==
    /\ size = 2
    /\ pits = {<<2, 2>>}
    /\ agent.position \in {<<1, 2>>, <<2, 1>>}
    /\ Reported(agent.position, TRUE)
    /\ agent.confirmed_pit = {<<2, 2>>}
    /\ ~terminated

-----------------------------------------------------------------------------
(* Episodes of the BeliefAgent on the 3x3 worlds whose pits fill the top    *)
(* row and the middle of the right column: the start and four more cells    *)
(* are open, among them the Wumpus' and the gold's.                         *)

StenchRunStart ==
    /\ size = 3
    /\ pit_probability \in PitProbabilities
    /\ pits = {<<1, 3>>, <<2, 3>>, <<3, 3>>, <<3, 2>>}
    /\ \A c \in coords(size) : (c \in pits) \in RandomBelow(pit_probability)
    /\ wumpus_pos \in WumpusChoices(size, pits)
    /\ gold_pos \in GoldChoices(size, pits, wumpus_pos)
    /\ agent_pos = start
    /\ agent_dir = "east"
    /\ wumpus_alive = TRUE
    /\ has_gold = FALSE
    /\ arrow_available = TRUE
    /\ terminated = FALSE
    /\ outcome = "none"
    /\ ret = StepResult(Percept(FALSE, FALSE, FALSE, FALSE, FALSE), FALSE, "none", FALSE)
    /\ screams = 0
    /\ PlannerIdle
    /\ glimmer_attr \in BOOLEAN
    /\ BeliefInit

StenchRunNext ==
    \/ simulate_qlearn_step /\ UNCHANGED plannerVars
    \/ simulate_qlearn_raise /\ UNCHANGED plannerVars

StenchRunSpec == StenchRunStart /\ [][StenchRunNext]_vars

(* The legal actions of the BeliefAgent. *)

(* The cell ahead of the agent. *)
ahead(a) == _forward(a.position, a.direction)

(* The legal actions of the pending act satisfy Allowed(a, p, legal), a    *)
(* being the object that has taken the percept p in.                        *)
LegalActionsAre(Allowed(_, _, _)) ==
    ActPending =>
        \A a \in {q_act_sense(agent, driver_percept)} :
            Allowed(a, driver_percept, _legal_actions(a, driver_percept))

(* Turns and FORWARD always; GRAB only on glitter; CLIMB only on the start *)
(* with gold; SHOOT only with the arrow, a stench and the Wumpus not known  *)
(* dead.                                                                    *)
LegalBasics(a, p, legal) ==
    /\ {"turn_left", "turn_right", "forward"} \subseteq legal
    /\ "grab" \in legal => p.glitter
    /\ "climb" \in legal => a.position = start /\ a.has_gold
    /\ "shoot" \in legal => a.has_arrow /\ p.stench /\ ~a.wumpus_dead

LegalShootOutsideSafe(a, p, legal) ==
    /\ LegalBasics(a, p, legal)
    /\ "shoot" \in legal => ahead(a) \notin a.safe_cells

LegalShootUncertain(a, p, legal) ==
    /\ LegalBasics(a, p, legal)
    /\ "shoot" \in legal => ahead(a) \notin a.safe_cells \/ ahead(a) \in a.maybe_wumpus

-----------------------------------------------------------------------------
(* The safety filter of the BeliefAgent. *)

(* The actions the pending call of act may return. *)
Returned == {r.action : r \in q_act(agent, driver_percept)} \cap Actions

(* The cell ahead of a is one the filter keeps the agent out of unless it  *)
(* has turned risky.                                                        *)
Suspected(a) ==
    \/ ahead(a) \in a.maybe_pit \ a.confirmed_no_pit
    \/ ahead(a) \in a.maybe_wumpus /\ ~a.wumpus_dead

(* C22: when the agent holds no gold and the percept has no bump, act      *)
(* never returns FORWARD while the cell ahead is in confirmed_pit, whatever *)
(* the stuck counter; and while the stuck counter is below 20 it never      *)
(* returns FORWARD while the cell ahead is in maybe_pit without being in    *)
(* confirmed_no_pit, or is in maybe_wumpus while the Wumpus is not known    *)
(* dead.                                                                    *)
C22_NoForwardIntoDanger ==
    ActPending =>
        \A a \in {q_act_sense(agent, driver_percept)} :
            ~a.has_gold /\ ~driver_percept.bump /\ "forward" \in Returned
                => /\ ahead(a) \notin a.confirmed_pit
                   /\ a.stuck_steps < StuckRisky => ~Suspected(a)

(* Act answers, by a turn, an agent without gold that has long been stuck  *)
(* in front of a pit it has deduced.                                        *)
C22_Witness ==
    /\ ActPending
    /\ Returned # {}
    /\ ~driver_percept.bump
    /\ \E a \in {q_act_sense(agent, driver_percept)} :
          /\ ~a.has_gold
          /\ ahead(a) \in a.confirmed_pit
          /\ a.stuck_steps = StuckRisky

(* Below the risky threshold act answers an agent facing a suspected cell. *)
SuspectedCellAhead ==
    /\ ActPending
    /\ Returned # {}
    /\ ~driver_percept.bump
    /\ \E a \in {q_act_sense(agent, driver_percept)} :
          ~a.has_gold /\ Suspected(a) /\ a.stuck_steps < StuckRisky

(* At the risky threshold act may walk into a suspected cell. *)
RiskyForward ==
    /\ ActPending
    /\ "forward" \in Returned
    /\ \E a \in {q_act_sense(agent, driver_percept)} : ~a.has_gold /\ Suspected(a)

-----------------------------------------------------------------------------
(* The way home of the BeliefAgent. *)

(* The neighbours of a's cell in safe_cells that are one step nearer to    *)
(* the start cell through safe_cells: the first cells of the shortest       *)
(* paths home.                                                              *)
HomewardCells(a) ==
    {c \in a.safe_cells :
        /\ Adjacent(a.position, c)
        /\ Connected(c, start, a.safe_cells)
        /\ Distance({c}, start, a.safe_cells, 0) + 1
               = Distance({a.position}, start, a.safe_cells, 0)}

(* The one the breadth-first search settles on: it tries the neighbours    *)
(* to the north, south, east and west in this order, so among shortest      *)
(* paths it finds the one whose first cell comes first.                     *)
HomewardCell(a) ==
    LET order == <<"north", "south", "east", "west">>
        first == CHOOSE k \in 1..4 :
                    /\ _forward(a.position, order[k]) \in HomewardCells(a)
                    /\ \A j \in 1..(k - 1) :
                          _forward(a.position, order[j]) \notin HomewardCells(a)
    IN  _forward(a.position, order[first])

(* FORWARD when a faces c, else the turn that brings c ahead, either turn  *)
(* when c is behind.                                                        *)
Toward(a, c) ==
    IF ahead(a) = c THEN {"forward"}
    ELSE IF _forward(a.position, turn_left(a.direction)) = c THEN {"turn_left"}
    ELSE IF _forward(a.position, turn_right(a.direction)) = c THEN {"turn_right"}
    ELSE {"turn_left", "turn_right"}

(* The pending call finds the agent with gold, off the start cell, and the *)
(* percept has no bump.                                                     *)
ReturningHome(a) == a.has_gold /\ a.position # start /\ ~driver_percept.bump

(* Every outcome of such a call: an action toward the first cell of the    *)
(* shortest path home that the search finds, no FORWARD out of safe_cells,  *)
(* epsilon zero.                                                            *)
HeadsHome ==
    ActPending =>
        \A a \in {q_act_sense(agent, driver_percept)} :
            ReturningHome(a) =>
                \A r \in q_act(agent, driver_percept) :
                    /\ r.action \in Actions =>
                          /\ HomewardCells(a) # {}
                          /\ r.action \in Toward(a, HomewardCell(a))
                    /\ r.action = "forward" => ahead(a) \in a.safe_cells
                    /\ r.agent.cfg.epsilon[1] = 0

(* Once zero, epsilon stays zero. *)
EpsilonStaysZero == agent.cfg.epsilon[1] = 0 => agent'.cfg.epsilon[1] = 0

TurnsAwayFromShortestPath ==
    /\ ActPending
    /\ \E a \in {q_act_sense(agent, driver_percept)} :
          /\ ReturningHome(a)
          /\ ahead(a) \in HomewardCells(a)
          /\ Returned # {}
          /\ "forward" \notin Returned

-----------------------------------------------------------------------------
(* qlearn_train.py: one training episode.  World has no score attribute,    *)
(* so the rewards the loop would hand to observe are inputs here, drawn     *)
(* from Rewards; alpha and gamma are halves, which keeps every Q-value of   *)
(* an episode a whole number of units.                                      *)

(* timeout_penalty = -500 *)
timeout_penalty == -500

(* The rewards of a step: a move's cost and the prize for the gold. *)
Rewards == {-1, 1000}

(* cfg = QConfig(alpha=args.alpha, gamma=args.gamma, epsilon=args.epsilon) *)
TrainQConfig == QConfig(<<1, 2>>, <<1, 2>>, <<2, 5>>)

(* agent = QLearningAgent(grid_size=args.size, config=cfg); agent.reset(); *)
(* percept = world.initial_percept()                                        *)
TrainInit ==
    /\ agent = QLearningAgent(size, TrainQConfig, <<>>)
    /\ acted = "none"
    /\ driver_percept \in handed(initial_percept_value)
    /\ steps = 0
    /\ sim_result = "none"

(* One turn of the for loop: act, step, observe, and finalize_episode when *)
(* the step ended the episode.                                              *)
train_step ==
    /\ sim_result = "none"
    /\ acted \notin Exceptions
    /\ simulate_budget_left(steps)
    /\ \E r \in q_act(agent, driver_percept) :
          /\ r.action \in Actions
          /\ step(r.action)
          /\ acted' = r.action
          /\ \E reward \in Rewards :
                agent' = IF ret'.terminated
                         THEN finalize_episode(observe(r.agent, reward, TRUE))
                         ELSE observe(r.agent, reward, FALSE)
    /\ driver_percept' \in handed(ret'.percept)
    /\ steps' = steps + 1
    /\ sim_result' = IF ret'.terminated THEN simulate_outcome(ret'.outcome) ELSE "none"
    /\ UNCHANGED glimmer_attr

(* The turn in which act raises: the exception ends the run. *)
train_raise ==
    /\ sim_result = "none"
    /\ acted \notin Exceptions
    /\ simulate_budget_left(steps)
    /\ \E r \in q_act(agent, driver_percept) :
          /\ r.action \in Exceptions
          /\ agent' = r.agent
          /\ acted' = r.action
    /\ UNCHANGED <<worldVars, driverVars, driver_percept, glimmer_attr>>

(* if not terminated: agent.observe(timeout_penalty, True);                *)
(* agent.finalize_episode()                                                 *)
train_timeout ==
    /\ sim_result = "none"
    /\ acted \notin Exceptions
    /\ ~simulate_budget_left(steps)
    /\ agent' = finalize_episode(observe(agent, timeout_penalty, TRUE))
    /\ sim_result' = "timeout"
    /\ UNCHANGED <<worldVars, steps, acted, driver_percept, glimmer_attr>>

(* Episodes on the pit-free worlds of one cell and of two by two cells. *)
TrainStart ==
    /\ Init
    /\ size <= 2
    /\ pit_probability = 0
    /\ PlannerIdle
    /\ glimmer_attr \in BOOLEAN
    /\ TrainInit

TrainNext ==
    \/ train_step /\ UNCHANGED plannerVars
    \/ train_raise /\ UNCHANGED plannerVars
    \/ train_timeout /\ UNCHANGED plannerVars

TrainSpec == TrainStart /\ [][TrainNext]_vars

-----------------------------------------------------------------------------
(* The training hooks of the BeliefAgent. *)

(* QLearningAgent.reset: the Q-table and the configuration are kept. *)
reset(a) == QLearningAgent(a.grid_size, a.cfg, a.q)

(* The objects finalize_episode is tried on in a state: the agent as the   *)
(* loop has left it and after reset, each also with a reward staged.        *)
Finalizable ==
    {agent, reset(agent)}
    \cup {observe(b, reward, done) :
             b \in {agent, reset(agent)}, reward \in Rewards, done \in BOOLEAN}

(* C24: finalize_episode on an object with no previous state, no previous  *)
(* action or no staged reward changes nothing of it, the Q-table included   *)
(* (the operator is total: nothing is raised); calling it twice in a row    *)
(* leaves what calling it once leaves.                                      *)
C24_FinalizeIdempotent ==
    \A a \in Finalizable :
        /\ ~pending(a) => finalize_episode(a) = a
        /\ finalize_episode(finalize_episode(a)) = finalize_episode(a)

(* The loop has finalized an episode whose last transition was pending:    *)
(* the Q-table holds its value, and a reward staged after reset would meet  *)
(* no previous state.                                                       *)
C24_Witness ==
    /\ sim_result # "none"
    /\ acted \in Actions
    /\ agent.prev_state # None
    /\ agent.pending_reward = <<>>
    /\ agent.q # <<>>
    /\ \E a \in Finalizable : a.pending_reward # <<>> /\ a.prev_state = None

(* The outcome r of act on the sensed object a and percept p has applied   *)
(* the pending transition into the state encoded from a and p, and has      *)
(* cleared the staged reward.                                               *)
UpdateApplied(a, p, r) ==
    /\ r.action \in Actions
    /\ r.agent.q = _q_update(a, a.prev_state, a.prev_action, a.pending_reward[1],
                             _encode_state(a, p), a.pending_done).q
    /\ r.agent.pending_reward = <<>>
    /\ r.agent.pending_done = FALSE

(* Every outcome of the pending call of act, for the calls that Learning   *)
(* admits: a pending transition is applied, and without a staged reward     *)
(* the Q-table is left as it was.                                           *)
DelayedUpdate(Learning(_, _)) ==
    ActPending =>
        \A a \in {q_act_sense(agent, driver_percept)} :
            \A r \in q_act(agent, driver_percept) :
                /\ (pending(a) /\ Learning(a, driver_percept))
                      => UpdateApplied(a, driver_percept, r)
                /\ a.pending_reward = <<>> => r.agent.q = a.q

AnyCall(a, p) == TRUE

NoReflexCall(a, p) == ~q_act_is_reflex(a, p)

DelayedUpdateOnLearningCalls == DelayedUpdate(NoReflexCall)

LearningCallUpdates ==
    /\ ActPending
    /\ \E a \in {q_act_sense(agent, driver_percept)} :
          /\ pending(a)
          /\ ~q_act_is_reflex(a, driver_percept)
          /\ \E r \in q_act(agent, driver_percept) :
                UpdateApplied(a, driver_percept, r) /\ r.agent.q # a.q /\ a.q # <<>>

-----------------------------------------------------------------------------
(* The plan of the PrologAgent. *)

(* The percept objects with bump set and no glitter that act may be handed. *)
BumpPercepts ==
    UNION {handed(Percept(breeze, stench, FALSE, TRUE, scream)) :
               breeze \in BOOLEAN, stench \in BOOLEAN, scream \in BOOLEAN}

(* Act on a percept with glitter leaves no plan. *)
GrabEmptiesPlan ==
    \A p \in GlitterPercepts : \A engine \in EngineOutcomes :
        \A r \in act(agent, p, engine) : r.action = "grab" /\ r.agent.plan = <<>>

(* Act on a percept with bump, the last action being a FORWARD of the plan, *)
(* does what it does on the same object without the rest of the plan.       *)
BumpDiscardsPlan ==
    agent.last_action = "forward" =>
        \A p \in BumpPercepts : \A engine \in EngineOutcomes :
            act(agent, p, engine) = act([agent EXCEPT !.plan = <<>>], p, engine)

Sensed == _remember_percept(_ingest_feedback(agent, driver_percept), driver_percept)

(* The cells a walker at pos facing d stands on, in order, while it        *)
(* carries out the turns and forward steps of actions.                      *)
RECURSIVE Track(_, _, _)
Track(pos, d, actions) ==
    IF actions = <<>> THEN <<pos>>
    ELSE IF Head(actions) = "turn_right" THEN Track(pos, Clockwise(d), Tail(actions))
    ELSE IF Head(actions) = "turn_left"
    THEN Track(pos, Clockwise(Clockwise(Clockwise(d))), Tail(actions))
    ELSE <<pos>> \o Track(Ahead(pos, d), d, Tail(actions))

(* The actions are legs of no turn, one turn or two TURN_RIGHT, each       *)
(* followed by one FORWARD.                                                 *)
RECURSIVE Legs(_)
Legs(actions) ==
    \/ actions = <<>>
    \/ \E k \in 0..2 :
          /\ Len(actions) > k
          /\ SubSeq(actions, 1, k) \in {<<>>, <<"turn_right">>, <<"turn_left">>,
                                        <<"turn_right", "turn_right">>}
          /\ actions[k + 1] = "forward"
          /\ Legs(SubSeq(actions, k + 2, Len(actions)))

(* What _queue_path_to does to object a for the target: nothing when the   *)
(* target is not in safe_known, out of reach or a's own cell; otherwise a   *)
(* plan of legs whose walk is a shortest path through safe_known from a's   *)
(* cell to the target.                                                      *)
QueuesPathTo(a, target) ==
    LET queued == _queue_path_to(a, target)
        track == Track(a.position, a.direction, queued.plan)
    IN  IF \/ target \notin a.safe_known
           \/ target = a.position
           \/ ~Connected(a.position, target, a.safe_known)
        THEN queued = a
        ELSE /\ queued = [a EXCEPT !.plan = queued.plan]
             /\ Legs(queued.plan)
             /\ IsPath(track, a.position, target, a.safe_known)
             /\ Len(track) = Distance({a.position}, target, a.safe_known, 0) + 1

(* The cells a target is drawn from: the agent's grid and the column       *)
(* beyond it.                                                               *)
Targets == (1..(size + 1)) \X (1..size)

(* C27: _queue_path_to queues nothing when the target is not in safe_known, *)
(* when no path exists or when the path has fewer than 2 cells; otherwise   *)
(* the plan is, for each consecutive pair of path cells, 0, 1 or 2 turns    *)
(* (two TURN_RIGHT for a reversal) and one FORWARD, and carrying it out     *)
(* from the agent's cell and heading visits the cells of a shortest path in *)
(* order, all in safe_known, ending on the target.                          *)
C27_QueuePathTo ==
    \A a \in {Sensed} : \A target \in Targets : QueuesPathTo(a, target)

(* The agent has no plan, and the one queued for a cell known safe starts  *)
(* by turning round and walks two cells, while another target lies outside  *)
(* safe_known.                                                              *)
C27_Witness ==
    \E a \in {Sensed} :
        /\ a.plan = <<>>
        /\ \E target \in a.safe_known :
              /\ Len(_queue_path_to(a, target).plan) >= 4
              /\ SubSeq(_queue_path_to(a, target).plan, 1, 2) = <<"turn_right", "turn_right">>
        /\ \E target \in Targets \ a.safe_known : _queue_path_to(a, target) = a

-----------------------------------------------------------------------------
(* The frontier of the PrologAgent. *)

(* The object on which lines 46-53 run when the oracle has answered safe:  *)
(* the sensed object with safe_known brought up to date.                    *)
Informed(safe) == [Sensed EXCEPT !.safe_known = @ \cup safe \cup keys(Sensed.visited)]

(* The cells known safe and not visited, and those of them beside a        *)
(* visited cell whose percept had glimmer.                                  *)
Unvisited(a) == a.safe_known \ keys(a.visited)

GlimmerNeighbours(a) ==
    {c \in Unvisited(a) :
        \E v \in keys(a.visited) : a.visited[v].glimmer /\ Adjacent(c, v)}

(* The cells of cells at the least Manhattan distance from pos. *)
Nearest(cells, pos) ==
    {c \in cells :
        \A d \in cells : Abs(c[1] - pos[1]) + Abs(c[2] - pos[2])
                            <= Abs(d[1] - pos[1]) + Abs(d[2] - pos[2])}

(* The choice f of _choose_frontier on object a: no target when nothing    *)
(* known safe is unvisited; else a target, nearest among the glimmer        *)
(* neighbours when there are any, and among all the unvisited otherwise.    *)
ChoosesFrontier(a, f) ==
    IF Unvisited(a) = {} THEN f.raised = "none" /\ f.targets = {None}
    ELSE /\ f.raised = "none"
         /\ f.targets # {}
         /\ f.targets \subseteq
               Nearest(IF GlimmerNeighbours(a) # {} THEN GlimmerNeighbours(a)
                       ELSE Unvisited(a), a.position)

(* The frontier choice of the pending call of act in the episodes that     *)
(* Percepts admits, when the agent carries no gold and has no plan:         *)
(* whatever the oracle answers, the choice is as above, and with no target  *)
(* act goes on as it does without a frontier plan.                          *)
FrontierChoice(Percepts) ==
    (/\ ActPending
     /\ Percepts
     /\ ~driver_percept.glitter
     /\ ~Sensed.has_gold
     /\ Sensed.plan = <<>>) =>
        \A engine \in EngineOutcomes :
            \A o \in {compute_safe_squares(Sensed.grid_size, Sensed.visited,
                                           Sensed.wumpus_dead, engine)} :
                o.raised = "none" =>
                    \A a \in {Informed(o.safe)} :
                        /\ ChoosesFrontier(a, _choose_frontier(a))
                        /\ Unvisited(a) = {} => act_plan(a) = {act_follow(a)}

(* main.py: episodes on the pit-free worlds of three by three cells with   *)
(* the Wumpus in the far corner, the engine answering every query, with and *)
(* without glimmer on the percepts.                                         *)
FrontierRunStart ==
    /\ size = 3
    /\ pit_probability = 0
    /\ pits = {}
    /\ wumpus_pos = <<size, size>>
    /\ gold_pos \in GoldChoices(size, pits, wumpus_pos)
    /\ agent_pos = start
    /\ agent_dir = "east"
    /\ wumpus_alive = TRUE
    /\ has_gold = FALSE
    /\ arrow_available = TRUE
    /\ terminated = FALSE
    /\ outcome = "none"
    /\ ret = StepResult(Percept(FALSE, FALSE, FALSE, FALSE, FALSE), FALSE, "none", FALSE)
    /\ screams = 0
    /\ PlannerIdle
    /\ glimmer_attr \in BOOLEAN
    /\ EpisodeInit

FrontierRunNext ==
    \/ run_episode_step({"answer"}) /\ UNCHANGED plannerVars
    \/ run_episode_raise({"answer"}) /\ UNCHANGED plannerVars

FrontierRunSpec == FrontierRunStart /\ [][FrontierRunNext]_vars

(* C28: when the agent carries no gold and its plan is empty, the frontier *)
(* target chosen is in safe_known and not visited, at minimum Manhattan     *)
(* distance from the agent among the unvisited safe_known neighbours of     *)
(* glimmer cells when any exist, otherwise among all unvisited safe_known   *)
(* cells; when no unvisited safe_known cell exists no target is chosen and  *)
(* no plan is queued for one.                                               *)
C28_FrontierTarget == FrontierChoice(TRUE)

(* The same in the episodes whose percepts carry glimmer. *)
FrontierTargetOnGlimmerPercepts == FrontierChoice(glimmer_attr)

(* On the percepts of world.py the first call has cells known safe to      *)
(* explore and raises on reading glimmer: no target is chosen.              *)
C28_Witness ==
    /\ ~glimmer_attr
    /\ acted = "AttributeError"
    /\ agent.plan = <<>>
    /\ ~agent.has_gold
    /\ Unvisited(agent) # {}

(* A glimmer neighbour is chosen although another unvisited cell is        *)
(* nearer.                                                                  *)
GlimmerNeighbourPreferred ==
    /\ ActPending
    /\ glimmer_attr
    /\ ~driver_percept.glitter
    /\ ~Sensed.has_gold
    /\ Sensed.plan = <<>>
    /\ \E a \in {Informed(provably_safe(Sensed.grid_size, Sensed.visited,
                                        Sensed.wumpus_dead))} :
          /\ GlimmerNeighbours(a) # {}
          /\ _choose_frontier(a).targets \subseteq GlimmerNeighbours(a)
          /\ Nearest(Unvisited(a), a.position) \cap GlimmerNeighbours(a) = {}

-----------------------------------------------------------------------------
(* The safety update of the BeliefAgent. *)

(* What _update_safety has made, in b, of the object a on percept p.  With *)
(* breeze the neighbours in the grid not confirmed pit-free join maybe_pit, *)
(* and a single one joins confirmed_pit and leaves maybe_pit; without       *)
(* breeze every neighbour joins confirmed_no_pit and safe_cells and leaves  *)
(* maybe_pit; the cell of a joins safe_cells and confirmed_no_pit.          *)
UpdatesPits(a, p, b) ==
    LET grid == (1..a.grid_size) \X (1..a.grid_size)
        around == {c \in grid : Adjacent(c, a.position)}
        open == around \ a.confirmed_no_pit
        single == Cardinality(open) = 1
    IN  /\ a.position \in b.safe_cells \cap b.confirmed_no_pit
        /\ p.breeze =>
              /\ b.maybe_pit = IF single THEN a.maybe_pit \ (open \cup {a.position})
                               ELSE (a.maybe_pit \ {a.position}) \cup open
              /\ b.confirmed_pit = IF single THEN a.confirmed_pit \cup open
                                   ELSE a.confirmed_pit
              /\ b.confirmed_no_pit = a.confirmed_no_pit \cup {a.position}
        /\ ~p.breeze =>
              /\ around \subseteq b.confirmed_no_pit \cap b.safe_cells
              /\ b.confirmed_no_pit = a.confirmed_no_pit \cup {a.position} \cup around
              /\ b.maybe_pit = a.maybe_pit \ (around \cup {a.position})
              /\ b.confirmed_pit = a.confirmed_pit
        /\ a.safe_cells \subseteq b.safe_cells

(* C29: in _update_safety, on breeze every neighbour in the grid that is   *)
(* not in confirmed_no_pit is added to maybe_pit, and when exactly one is   *)
(* not in confirmed_no_pit it is added to confirmed_pit and removed from    *)
(* maybe_pit; without breeze every neighbour in the grid is added to        *)
(* confirmed_no_pit and safe_cells and removed from maybe_pit; the current  *)
(* cell is always added to safe_cells and confirmed_no_pit.                 *)
C29_SafetyUpdate ==
    \A pos \in {agent.position} \cup _neighbors(agent.position, agent.grid_size) :
        \A breeze \in BOOLEAN, stench \in BOOLEAN :
            \A a \in {[agent EXCEPT !.position = pos]} :
                \A p \in {Percept(breeze, stench, FALSE, FALSE, FALSE)} :
                    UpdatesPits(a, p, _update_safety(a, p))

(* Breeze on the start made suspects of both its neighbours; breeze on     *)
(* (1,2) then left (2,2) as the one neighbour not confirmed pit-free, which *)
(* became a confirmed pit, while (2,1) is still a suspect.                  *)
C29_Witness ==
    /\ Reported(start, TRUE)
    /\ Reported(<<1, 2>>, TRUE)
    /\ agent.position = <<1, 2>>
    /\ agent.confirmed_pit = {<<2, 2>>}
    /\ agent.maybe_pit = {<<2, 1>>}
    /\ agent.confirmed_no_pit = {start, <<1, 2>>}

-----------------------------------------------------------------------------
(* The belief masks of the BeliefAgent. *)

(* The cells whose bit is set in the mask, which has no bit beyond the     *)
(* grid's.                                                                  *)
Cells(mask) ==
    {c \in (1..agent.grid_size) \X (1..agent.grid_size) :
        has_bit(mask, _bit(c[1], c[2], agent.grid_size))}

InGrid(mask) == mask \in 0..(2 ^ (agent.grid_size * agent.grid_size) - 1)

(* Each visited cell has exactly one of the breeze bits and exactly one of *)
(* the stench bits; no other cell has any.                                  *)
MasksSplitVisited ==
    /\ \A mask \in {agent.visited_mask, agent.breeze_mask, agent.no_breeze_mask,
                    agent.stench_mask, agent.no_stench_mask} : InGrid(mask)
    /\ Cells(agent.breeze_mask) \cap Cells(agent.no_breeze_mask) = {}
    /\ Cells(agent.breeze_mask) \cup Cells(agent.no_breeze_mask) = Cells(agent.visited_mask)
    /\ Cells(agent.stench_mask) \cap Cells(agent.no_stench_mask) = {}
    /\ Cells(agent.stench_mask) \cup Cells(agent.no_stench_mask) = Cells(agent.visited_mask)

(* A call that leaves the Wumpus known dead has set no stench bit. *)
DeadSetsNoStench ==
    agent'.wumpus_dead =>
        \A c \in (1..agent.grid_size) \X (1..agent.grid_size) :
            has_bit(agent'.stench_mask, _bit(c[1], c[2], agent.grid_size))
                => has_bit(agent.stench_mask, _bit(c[1], c[2], agent.grid_size))

(* C30: in every state of the agent breeze_mask and no_breeze_mask are     *)
(* disjoint and their union is visited_mask, likewise stench_mask and       *)
(* no_stench_mask; and once the Wumpus is known dead no call sets a stench  *)
(* bit.                                                                     *)
C30_BeliefMasks == []MasksSplitVisited /\ [][DeadSetsNoStench]_vars

(* The Wumpus is known dead, every cell of the grid has been visited, and  *)
(* stench is remembered on some cells and its absence on others.            *)
C30_Witness ==
    /\ agent.wumpus_dead
    /\ Cells(agent.visited_mask) = (1..agent.grid_size) \X (1..agent.grid_size)
    /\ Cells(agent.stench_mask) # {}
    /\ Cells(agent.no_stench_mask) # {}
    /\ Cells(agent.breeze_mask) # {}

-----------------------------------------------------------------------------
(* The targets of the Q-updates. *)

(* The Q-values stored in the table q for the state s. *)
StoredValues(q, s) == {q[k] : k \in {k \in DOMAIN q : k[1] = s}}

(* The largest of the values stored for s, and 0 when nothing is stored. *)
MaxStored(q, s) ==
    IF StoredValues(q, s) = {} THEN 0
    ELSE CHOOSE x \in StoredValues(q, s) : \A y \in StoredValues(q, s) : y <= x

(* The table after is the table before with the entry of (s, action) moved *)
(* by the learning rate towards target, and nothing else of it changed.     *)
MovedTowards(before, after, s, action, target, alpha) ==
    /\ DOMAIN after = DOMAIN before \cup {<<s, action>>}
    /\ \A k \in DOMAIN before \ {<<s, action>>} : after[k] = before[k]
    /\ \A old \in {IF <<s, action>> \in DOMAIN before THEN before[<<s, action>>] ELSE 0} :
          after[<<s, action>>] = old + times(target - old, alpha)

(* The states an update is tried with as the next state: those of the      *)
(* table, and the one of the pending pair, which the table may not hold.    *)
NextStates(a) == {k[1] : k \in DOMAIN a.q} \cup {a.prev_state}

(* C31: a Q-update of a terminal transition moves the entry of             *)
(* (prev_state, prev_action) towards the reward; that of a non-terminal     *)
(* transition towards the reward plus gamma times the largest value stored  *)
(* in the table for the next state, 0 when none is stored; finalize_episode *)
(* moves it towards the reward alone.  No other entry of the table changes. *)
C31_QUpdateTarget ==
    \A a \in Finalizable :
        pending(a) =>
            /\ \A next_s \in NextStates(a) :
                  /\ MovedTowards(a.q,
                                  _q_update(a, a.prev_state, a.prev_action,
                                            a.pending_reward[1], next_s, TRUE).q,
                                  a.prev_state, a.prev_action,
                                  a.pending_reward[1] * QUnit, a.cfg.alpha)
                  /\ MovedTowards(a.q,
                                  _q_update(a, a.prev_state, a.prev_action,
                                            a.pending_reward[1], next_s, FALSE).q,
                                  a.prev_state, a.prev_action,
                                  a.pending_reward[1] * QUnit
                                      + times(MaxStored(a.q, next_s), a.cfg.gamma),
                                  a.cfg.alpha)
            /\ MovedTowards(a.q, finalize_episode(a).q, a.prev_state, a.prev_action,
                            a.pending_reward[1] * QUnit, a.cfg.alpha)

(* A transition is pending into a state the table holds nothing for, while *)
(* the table holds another state whose stored values are all negative, and  *)
(* other entries than the pending pair's: the bootstrapped term is then     *)
(* neither 0 nor absent, and there are entries to leave alone.              *)
C31_Witness ==
    /\ pending(agent)
    /\ StoredValues(agent.q, agent.prev_state) = {}
    /\ \E s \in NextStates(agent) :
          /\ StoredValues(agent.q, s) # {}
          /\ MaxStored(agent.q, s) < 0
          /\ _q_update(agent, agent.prev_state, agent.prev_action,
                       agent.pending_reward[1], s, FALSE).q
                # _q_update(agent, agent.prev_state, agent.prev_action,
                            agent.pending_reward[1], s, TRUE).q

-----------------------------------------------------------------------------
(* The agents' record of themselves against the world. *)

(* Whether the driver runs a PrologAgent; otherwise a QLearningAgent. *)
IsLogical == "plan" \in DOMAIN agent

(* Episodes of either agent on the worlds up to 2x2, whatever the engine   *)
(* does, with and without glimmer on the percepts.                         *)
DriverStart ==
    /\ Init
    /\ size <= 2
    /\ PlannerIdle
    /\ glimmer_attr \in BOOLEAN
    /\ (EpisodeInit \/ BeliefInit)

DriverNext ==
    \/ IsLogical /\ run_episode_step(EngineOutcomes) /\ UNCHANGED plannerVars
    \/ IsLogical /\ run_episode_raise(EngineOutcomes) /\ UNCHANGED plannerVars
    \/ ~IsLogical /\ simulate_qlearn_step /\ UNCHANGED plannerVars
    \/ ~IsLogical /\ simulate_qlearn_raise /\ UNCHANGED plannerVars

DriverSpec == DriverStart /\ [][DriverNext]_vars

(* The agent of the pending act call once it has ingested the feedback. *)
Ingested ==
    IF IsLogical THEN _ingest_feedback(agent, driver_percept)
    ELSE q_ingest_feedback(agent, driver_percept)

(* The object a holds the world's position and direction, and for the      *)
(* BeliefAgent its arrow and the death of the Wumpus.                       *)
Tracks(a) ==
    /\ a.position = agent_pos
    /\ a.direction = agent_dir
    /\ ~IsLogical => /\ a.has_arrow = arrow_available
                     /\ a.wumpus_dead = ~wumpus_alive

(* C32: at every act call of the driver loop, the agent that has ingested  *)
(* the feedback holds the world's agent position and direction, and the     *)
(* BeliefAgent's has_arrow is the world's arrow_available and its           *)
(* wumpus_dead the negation of wumpus_alive; once the action act returned   *)
(* has been applied, the agent's has_gold is the world's.                   *)
C32_AgentTracksWorld ==
    /\ ActPending => Tracks(Ingested)
    /\ acted \in Actions => agent.has_gold = has_gold

(* A BeliefAgent that has shot the Wumpus, turned and bumped into a wall   *)
(* is about to act.                                                         *)
C32_Witness ==
    /\ ActPending
    /\ ~IsLogical
    /\ ~wumpus_alive
    /\ agent.last_action = "forward"
    /\ driver_percept.bump
    /\ agent_dir # "east"
    /\ Tracks(Ingested)

-----------------------------------------------------------------------------
(* The PrologAgent with a sound oracle. *)

(* The cells a sound oracle may return: inside the grid, without a pit and *)
(* without the live Wumpus.                                                 *)
SoundCells ==
    {c \in (1..size) \X (1..size) : c \notin pits /\ ~(wumpus_alive /\ c = wumpus_pos)}

(* Lines 34-66 with compute_safe_squares returning the set safe. *)
act_answered(a, percept, safe) ==
    IF percept.glitter THEN {act_grab(a)}
    ELSE act_query(a, [raised |-> "none", safe |-> safe])

(* PrologAgent.act with an oracle that answers any set of the given cells. *)
(* The answer is only joined to safe_known (line 43), so the answers that   *)
(* differ in cells of safe_known alone are one case.                        *)
act_within(a, percept, cells) ==
    UNION {act_answered(_remember_percept(_ingest_feedback(a, percept), percept),
                        percept, safe) : safe \in SUBSET (cells \ a.safe_known)}

(* One turn of the loop in which act returns an action. *)
oracle_episode_step(cells) ==
    /\ sim_result = "none"
    /\ acted \notin Exceptions
    /\ \E r \in act_within(agent, driver_percept, cells) :
          /\ r.action \in Actions
          /\ step(r.action)
          /\ agent' = r.agent
          /\ acted' = r.action
    /\ driver_percept' \in handed(ret'.percept)
    /\ sim_result' = IF ret'.terminated THEN simulate_outcome(ret'.outcome) ELSE "none"
    /\ UNCHANGED <<steps, glimmer_attr>>

(* The turn of the loop in which act raises. *)
oracle_episode_raise(cells) ==
    /\ sim_result = "none"
    /\ acted \notin Exceptions
    /\ \E r \in act_within(agent, driver_percept, cells) :
          /\ r.action \in Exceptions
          /\ agent' = r.agent
          /\ acted' = r.action
    /\ UNCHANGED <<worldVars, driverVars, driver_percept, glimmer_attr>>

(* Episodes of the PrologAgent on every small world with any sound oracle, *)
(* with and without glimmer on the percepts.                                *)
SoundOracleNext ==
    \/ oracle_episode_step(SoundCells) /\ UNCHANGED plannerVars
    \/ oracle_episode_raise(SoundCells) /\ UNCHANGED plannerVars

SoundOracleSpec == EpisodeStart /\ [][SoundOracleNext]_vars

(* The same on the worlds up to 2x2 with an oracle that answers any set of *)
(* cells of the grid.                                                       *)
GridOracleStart == EpisodeStart /\ size <= 2

GridOracleNext ==
    \/ oracle_episode_step(Grid) /\ UNCHANGED plannerVars
    \/ oracle_episode_raise(Grid) /\ UNCHANGED plannerVars

GridOracleSpec == GridOracleStart /\ [][GridOracleNext]_vars

(* The agent's actions keep it alive: the FORWARD act has returned leads   *)
(* from the agent's cell into a cell of safe_known, no percept reports a    *)
(* bump, and no episode has ended in a pit or in the Wumpus.                *)
StaysSafe ==
    /\ acted = "forward" => _forward(agent.position, agent.direction) \in agent.safe_known
    /\ ~ret.percept.bump
    /\ outcome \notin {"fell_in_pit", "eaten_by_wumpus"}

(* C33 as stated: with a sound oracle the PrologAgent only issues FORWARD  *)
(* into cells of safe_known, never receives a bump, and no episode ends     *)
(* with fell_in_pit or eaten_by_wumpus.                                     *)
C33_SoundOracleSafe == StaysSafe

(* C33 amended: the same in the worlds whose Wumpus is not on the start    *)
(* cell, where _generate_world puts it when every other cell is a pit.     *)
C33_SoundOracleSafeOffStart == wumpus_pos # start => StaysSafe

(* The agent has walked into a cell beside a pit or beside the live Wumpus *)
(* and is about to act there.                                               *)
C33_Witness ==
    /\ ActPending
    /\ wumpus_pos # start
    /\ acted = "forward"
    /\ agent_pos # start
    /\ agent_pos \in agent.safe_known
    /\ (ret.percept.breeze \/ ret.percept.stench)

(* On a world of pits alone the gold and the Wumpus share the start cell:  *)
(* the agent grabs the gold it sees and is eaten.                           *)
EatenAtStart ==
    /\ wumpus_pos = start
    /\ acted = "grab"
    /\ has_gold
    /\ outcome = "eaten_by_wumpus"

-----------------------------------------------------------------------------
(* The PrologAgent's way home. *)

(* C34: with an oracle that answers cells of the grid only, act returns    *)
(* CLIMB only with the agent's position on the start cell, and the CLIMB    *)
(* ends the episode; at every act call the cells of safe_known, the visited *)
(* ones among them, join the agent's position to the start cell, so that    *)
(* the last-resort CLIMB of line 62 is not reached.                         *)
C34_ClimbsAtStartOnly ==
    /\ acted = "climb" => (agent.position = start /\ terminated)
    /\ ActPending => Connected(Informed({}).position, start, Informed({}).safe_known)
    /\ ActPending =>
          \A r \in act_within(agent, driver_percept, Grid) :
              r.action = "climb" => r.agent.position = start

(* The agent has been away from the start cell, has come back and has      *)
(* climbed out.                                                             *)
C34_Witness ==
    /\ acted = "climb"
    /\ terminated
    /\ agent.position = start
    /\ Cardinality(keys(agent.visited)) >= 2

-----------------------------------------------------------------------------
(* The end of the PrologAgent's episodes. *)

(* C35: with a sound oracle that answers cells of the grid only, every     *)
(* episode of the PrologAgent under the driver loop eventually terminates.  *)
C35_EpisodeTerminates == <>terminated

(* act has raised AttributeError on the first percept of world.py, with a  *)
(* frontier to choose from, and the episode has not terminated.             *)
C35_Witness ==
    /\ ~glimmer_attr
    /\ acted = "AttributeError"
    /\ ~terminated
    /\ sim_result = "none"
    /\ keys(agent.visited) = {start}
    /\ ~agent.visited[start].stench

(* With any sound oracle no episode turns the loop for ever: from some     *)
(* point on nothing changes.                                                *)
EpisodesHaveNoLoop == <>[][FALSE]_vars

(* On percepts that carry glimmer, the loop with a sound oracle only stops *)
(* turning when the episode has terminated.                                 *)
StopsOnlyTerminated == glimmer_attr => (ActPending \/ terminated)

(* A plan that has ended away from the start cell in the hands of an agent *)
(* without the gold has led it to a cell it had not visited.                *)
FrontierPlanVisitsNewCell ==
    (acted = "forward" /\ agent.plan = <<>> /\ ~agent.has_gold /\ agent_pos # start)
        => agent_pos \notin keys(agent.visited)

-----------------------------------------------------------------------------
(* The BeliefAgent and the hazards of the true world. *)

(* What the agent a holds about pits is true of the world, and it holds    *)
(* something about every neighbour of its cell.                             *)
PitBeliefsSound(a) ==
    /\ (a.confirmed_no_pit \cup a.safe_cells) \cap pits = {}
    /\ _neighbors(a.position, a.grid_size)
          \subseteq (a.confirmed_no_pit \cup a.maybe_pit \cup a.confirmed_pit)

(* C36: at every act call of the BeliefAgent under the driver loop, once   *)
(* the percept is taken in, every cell of confirmed_no_pit and of           *)
(* safe_cells is free of pits in the world and every in-grid neighbour of   *)
(* the agent's cell is in confirmed_no_pit, maybe_pit or confirmed_pit;     *)
(* while stuck_steps is below 20 no FORWARD that act may return leads onto  *)
(* a pit.                                                                   *)
C36_NoForwardIntoPit ==
    (ActPending /\ ~IsLogical) =>
        \A a \in {q_act_sense(agent, driver_percept)} :
            /\ PitBeliefsSound(a)
            /\ a.stuck_steps < StuckRisky =>
                  \A r \in q_act(agent, driver_percept) :
                      r.action = "forward" => ahead(a) \notin pits

(* The agent, not stuck for long, has turned to face a pit it has not      *)
(* confirmed, and act may return some action but not FORWARD.               *)
C36_Witness ==
    /\ ActPending
    /\ ~IsLogical
    /\ \A a \in {q_act_sense(agent, driver_percept)} :
          /\ a.stuck_steps < StuckRisky
          /\ ahead(a) \in pits
          /\ ahead(a) \in a.maybe_pit
          /\ ~driver_percept.bump
          /\ acted \in {"turn_left", "turn_right"}
          /\ \E r \in q_act(agent, driver_percept) : r.action \in Actions
          /\ \A r \in q_act(agent, driver_percept) : r.action # "forward"

(* C37: at every act call of the BeliefAgent under the driver loop, once   *)
(* the percept is taken in, no cell of safe_cells holds the live Wumpus;    *)
(* when a stench is sensed with the Wumpus alive, its cell is in            *)
(* maybe_wumpus; and while stuck_steps is below 20 no FORWARD that act may  *)
(* return leads onto the cell of the live Wumpus.                           *)
C37_NoForwardIntoWumpus ==
    (ActPending /\ ~IsLogical /\ wumpus_alive) =>
        \A a \in {q_act_sense(agent, driver_percept)} :
            /\ wumpus_pos \notin a.safe_cells
            /\ driver_percept.stench => wumpus_pos \in a.maybe_wumpus
            /\ a.stuck_steps < StuckRisky =>
                  \A r \in q_act(agent, driver_percept) :
                      r.action = "forward" => ahead(a) # wumpus_pos

(* The agent has sensed a stench without a breeze, holds the cell of the   *)
(* live Wumpus ahead to be safe and not to be suspected, and act may return *)
(* FORWARD on its first call.                                               *)
WumpusCellHeldSafe ==
    /\ ActPending
    /\ ~IsLogical
    /\ wumpus_alive
    /\ driver_percept.stench
    /\ ~driver_percept.breeze
    /\ \A a \in {q_act_sense(agent, driver_percept)} :
          /\ ahead(a) = wumpus_pos
          /\ wumpus_pos \in a.safe_cells
          /\ wumpus_pos \notin a.maybe_wumpus
          /\ a.stuck_steps < StuckRisky
          /\ \E r \in q_act(agent, driver_percept) : r.action = "forward"

(* The BeliefAgent, not stuck for long, has stepped onto the live Wumpus. *)
C37_Witness ==
    /\ ~IsLogical
    /\ acted = "forward"
    /\ outcome = "eaten_by_wumpus"
    /\ agent.stuck_steps < StuckForward

-----------------------------------------------------------------------------
(* The BeliefAgent's way home with the gold. *)

(* One turn of the loop in which act returns an action; steps is the step  *)
(* counter of the loop kept modulo 2, which tells one turn from the next.   *)
counted_qlearn_step ==
    /\ sim_result = "none"
    /\ acted \notin Exceptions
    /\ \E r \in q_act(agent, driver_percept) :
          /\ r.action \in Actions
          /\ step(r.action)
          /\ agent' = r.agent
          /\ acted' = r.action
    /\ driver_percept' \in handed(ret'.percept)
    /\ sim_result' = IF ret'.terminated THEN simulate_outcome(ret'.outcome) ELSE "none"
    /\ steps' = (steps + 1) % 2
    /\ UNCHANGED glimmer_attr

(* The loop turns: enabled whenever the loop is about to call act, which   *)
(* returns or raises on every percept.                                      *)
LoopTurns == ActPending /\ steps' = (steps + 1) % 2

(* Episodes of the BeliefAgent on the worlds up to 2x2 in which the loop   *)
(* keeps turning until the episode ends or act raises.                      *)
HomeRunStart == BeliefStart /\ size <= 2

HomeRunNext ==
    \/ counted_qlearn_step /\ UNCHANGED plannerVars
    \/ simulate_qlearn_raise /\ UNCHANGED plannerVars

HomeRunSpec == HomeRunStart /\ [][HomeRunNext]_vars /\ WF_steps(LoopTurns)

GoldRunEnds == has_gold ~> terminated

(* It ends well when the Wumpus is dead or off every cell of safe_cells by *)
(* the time of the grab.                                                    *)
GoldComesHomePastWumpus ==
    (has_gold /\ (~wumpus_alive \/ wumpus_pos \notin agent.safe_cells))
        ~> (outcome = "escaped_with_gold")

-----------------------------------------------------------------------------
(* The rewards of the training loop. *)

(* The outcome r of act on the sensed object a and percept p has applied   *)
(* the reward staged in a to the pair recorded in a, once, as the reward of *)
(* a transition into the state encoded from a and p, and holds none staged. *)
StagedRewardSpent(a, p, r) ==
    /\ r.agent.pending_reward = <<>>
    /\ MovedTowards(a.q, r.agent.q, a.prev_state, a.prev_action,
                    a.pending_reward[1] * QUnit
                        + times(MaxStored(a.q, _encode_state(a, p)), a.cfg.gamma),
                    a.cfg.alpha)

(* Every act call of the loop that returns, for the calls that Learning    *)
(* admits, spends the reward staged by the observe before it.               *)
RewardsSpent(Learning(_, _)) ==
    (ActPending /\ simulate_budget_left(steps)) =>
        \A a \in {q_act_sense(agent, driver_percept)} :
            (pending(a) /\ Learning(a, driver_percept)) =>
                \A r \in q_act(agent, driver_percept) :
                    r.action \in Actions => StagedRewardSpent(a, driver_percept, r)

(* The first act call after reset leaves the Q-table as it is. *)
FirstActAfterResetLearnsNothing ==
    \A r \in q_act(reset(agent), driver_percept) : r.agent.q = agent.q

(* The finalize_episode of a timeout applies the reward that was staged. *)
TimeoutSpendsStagedReward ==
    (sim_result = "none" /\ sim_result' = "timeout" /\ pending(agent)) =>
        MovedTowards(agent.q, agent'.q, agent.prev_state, agent.prev_action,
                     agent.pending_reward[1] * QUnit, agent.cfg.alpha)

RewardsSpentOnLearningCalls ==
    [](RewardsSpent(NoReflexCall) /\ FirstActAfterResetLearnsNothing)

TimeoutReplacesStagedReward ==
    /\ sim_result = "timeout"
    /\ agent.pending_reward = <<>>
    /\ agent.prev_state # None
    /\ \E k \in DOMAIN agent.q : agent.q[k] < -1 * QUnit

(* The act calls of the loop spend the staged reward, reflexes included. *)
RewardsSpentOnEveryCall == RewardsSpent(AnyCall)

(* The timeout of the loop spends the reward that was staged. *)
TimeoutsSpendStagedReward == [][TimeoutSpendsStagedReward]_vars

-----------------------------------------------------------------------------
(* The hazards and the flags of the environment. *)

(* A call of step has just returned with the episode still running. *)
SteppedAndRunning == (\E action \in Actions : step(action)) /\ ~terminated'

(* The agent's cell after the step is no pit and not the live Wumpus's. *)
LandsClear ==
    /\ agent_pos' \notin pits'
    /\ ~(wumpus_alive' /\ agent_pos' = wumpus_pos')

(* The four flags move one way only. *)
FlagsOneWay ==
    /\ has_gold => has_gold'
    /\ ~arrow_available => ~arrow_available'
    /\ ~wumpus_alive => ~wumpus_alive'
    /\ terminated => terminated'

(* C40: a state reached by a step and not terminated has the agent on a    *)
(* cell that is no pit and not the cell of a live Wumpus; has_gold never    *)
(* goes from true to false, arrow_available and wumpus_alive never from     *)
(* false to true, terminated never from true to false.                      *)
C40_HazardsEndEpisode == [][(SteppedAndRunning => LandsClear) /\ FlagsOneWay]_vars

(* The episode runs on with the gold taken, the arrow spent, and the agent *)
(* standing on the cell of the Wumpus it has shot.                          *)
C40_Witness ==
    /\ ~terminated
    /\ has_gold
    /\ ~arrow_available
    /\ ~wumpus_alive
    /\ agent_pos = wumpus_pos
    /\ agent_pos # start

(* The agent has walked onto a pit and onto the live Wumpus: both episodes *)
(* are over.                                                                *)
HazardReached ==
    /\ terminated
    /\ agent_pos # start
    /\ \/ agent_pos \in pits /\ outcome = "fell_in_pit"
       \/ agent_pos = wumpus_pos /\ wumpus_alive /\ outcome = "eaten_by_wumpus"

(* Before any step the agent may stand on the live Wumpus: the world whose *)
(* other cells are all pits.                                                *)
StartsOnWumpus ==
    /\ ~terminated
    /\ wumpus_alive
    /\ agent_pos = wumpus_pos

====
